---- MODULE Spec2Model ----
(***************************************************************************)
(* A model of the mech_interact_abci skill (valory-xyz/mech-interact):     *)
(*   - MechRequestBehaviour, the step sequencer that prepares the          *)
(*     multisend safe transaction of a batch of mech requests              *)
(*     (behaviours/request.py, behaviours/purchase_subcription.py);        *)
(*   - MechInteractAbciApp, the round transition table (rounds.py);        *)
(*   - MechInformationBehaviour and QueryingBehaviour, the subgraph and    *)
(*     tools fetch with their retry counters (behaviours/mech_info.py,     *)
(*     graph_tooling/requests.py);                                         *)
(*   - MechInfo.__lt__ and the ranking accessors of SynchronizedData       *)
(*     (states/base.py).                                                   *)
(* Each component has its own specification over its own variables; the    *)
(* variables of the other components stay as initialised.                  *)
(***************************************************************************)
EXTENDS Integers, Sequences, FiniteSets, TLC

VARIABLES
    \* ---- MechRequestBehaviour (one agent, one behaviour instance) ----
    params,              \* the skill's static configuration (MechParams)
    sync_mech_requests,  \* SynchronizedData.mech_requests: nonces of the queued requests
    pc,                  \* position of the behaviour in async_act / _prepare_safe_tx
    steps,               \* the step list built by _prepare_safe_tx (request.py:848-859)
    step_i,              \* index in steps of the step being waited for
    attempts,            \* failed evaluations of the step being waited for
    mech_requests,       \* self._mech_requests
    pending_responses,   \* self._pending_responses (nonce and data of each placeholder)
    multisend_batches,   \* self.multisend_batches
    v1_hex_truncated,    \* self._v1_hex_truncated
    request_data,        \* self._request_data
    price,               \* self._price
    wallet_balance,      \* self.wallet_balance
    token_balance,       \* self.token_balance
    mech_payment_type,   \* self._mech_payment_type
    mech_max_delivery_rate, \* self._mech_max_delivery_rate
    nvm_balance,         \* self._nvm_balance
    subscription_balance,\* self._subscription_balance
    balance_tracker,     \* self._balance_tracker
    multisend_data,      \* self.multisend_data
    safe_tx_hash,        \* self._safe_tx_hash
    payload,             \* the payload handed to finish_behaviour
    shortage,            \* the shortfall logged by the last failed balance check
    last_check,          \* the outcome of the last evaluation of the balance check
    popped,              \* history: nonces popped from self._mech_requests in this run
    reentries,           \* times the round was re-entered after ROUND_TIMEOUT
    \* ---- MechInteractAbciApp ----
    current_round,       \* the round the application is in
    round_history,       \* the rounds that have ended, oldest first
    event_history,       \* the events that ended them
    \* ---- MechInformationBehaviour ----
    info_pc,             \* position of the behaviour in async_act / get_mechs_info
    api_retries,         \* the configured retries of mechs_subgraph and mech_tools
    fetch_status,        \* self._fetch_status
    call_failed,         \* self._call_failed
    subgraph_attempted,  \* mechs_subgraph.retries_info.retries_attempted
    tools_attempted,     \* mech_tools.retries_info.retries_attempted
    fetched,             \* the mechs' information fetched so far
    populate_i,          \* index of the mech whose tools are being fetched
    info_payload,        \* the content of the JSONPayload, once emitted
    \* ---- MechPurchaseSubscriptionBehaviour ----
    purchase,            \* the attributes of the behaviour and the outcome of its last call
    \* ---- MechVersionDetectionRound ----
    is_marketplace_v2,   \* SynchronizedData.is_marketplace_v2 ("unset" when the key is absent)
    participant_to_votes,\* the votes the round has collected when a block ends
    tool_failures,       \* history: failed tools fetches of each mech since its last success
    \* ---- MechInfo ranking ----
    mechs_info,          \* SynchronizedData.mechs_info
    mechs_info_reordered,\* the same mechs' information in another order
    lt,                  \* the pairs (i, j) with mechs_info[i] < mechs_info[j]
    priority,            \* priority_mech of both orders
    ranked               \* ranked_mechs of both orders

reqVars == <<params, sync_mech_requests, pc, steps, step_i, attempts,
             mech_requests, pending_responses, multisend_batches, v1_hex_truncated,
             request_data, price, wallet_balance, token_balance, mech_payment_type,
             mech_max_delivery_rate, nvm_balance, subscription_balance, balance_tracker,
             multisend_data, safe_tx_hash, payload, shortage, last_check, popped,
             reentries>>

fsmVars == <<current_round, round_history, event_history, is_marketplace_v2,
             participant_to_votes>>

infoVars == <<info_pc, api_retries, fetch_status, call_failed, subgraph_attempted,
              tools_attempted, fetched, populate_i, info_payload, tool_failures>>

rankVars == <<mechs_info, mechs_info_reordered, lt, priority, ranked>>

purVars == <<purchase>>

\* ---- MechInfo(kwargs) and MechsSubgraph.filter_info ----
VARIABLE
    built    \* the keywords or the items given, and what was built from them

builtVars == <<built>>

vars == <<reqVars, fsmVars, infoVars, rankVars, purVars, builtVars>>

\* What the request behaviour leaves alone.
nonReqVars == <<fsmVars, infoVars, rankVars, purVars, builtVars>>

(***************************************************************************)
(* Bounds of the model.                                                    *)
(***************************************************************************)
MaxRequests == 2      \* requests queued in SynchronizedData.mech_requests
MaxBatchSize == 2     \* params.multisend_batch_size ranges over 1..MaxBatchSize
MaxBalance == 2       \* balances returned by the ledger and the contracts
MaxPrice == 2         \* prices and delivery rates returned by the mech contracts
MaxAttempts == 2      \* failures of one step before the model lets it only succeed
MaxReentries == 1     \* ROUND_TIMEOUT re-entries of the request round
MaxEvents == 4        \* rounds that end in one run of the application
MaxRetries == 2       \* configured retries of an ApiSpecs
MaxMechs == 2         \* mechs the subgraph knows
MaxToolFailures == 4  \* failed tools fetches of one mech that the model follows
NumMechs == 3         \* mechs of SynchronizedData.mechs_info that are ranked
MaxKarma == 2         \* karma ranges over 0..MaxKarma
BusyRequests == 28991 \* requests received by a busy mech
MaxSpread == 2        \* busy mechs have received BusyRequests..BusyRequests + MaxSpread
MaxHalfLives == 1     \* last deliveries are 1..MaxHalfLives half-lives old
MaxDeliveryRate == 1  \* max_delivery_rate ranges over 1..MaxDeliveryRate
NumAgents == 4        \* participants of the rounds
SortLen == 3          \* mechs of the lists whose ranking is ranked again
MaxCount == 1         \* karma and the counts given to MechInfo range over 0..MaxCount
MaxFailAt == 3        \* the failing contract call of a purchase stage is one of 1..MaxFailAt, 0 for none

\* Python's None for the Optional[int] attributes.
None == 0 - 1

(***************************************************************************)
(* MechRequestBehaviour: configuration, attributes and helpers.            *)
(***************************************************************************)
PaymentTypes == {"NATIVE", "TOKEN", "NATIVE_NVM", "TOKEN_NVM_USDC"}
NVM_PAYMENT_TYPES == {"NATIVE_NVM", "TOKEN_NVM_USDC"}

\* The configurations the model ranges over: MechParams and the agreed
\* marketplace version of SynchronizedData.is_marketplace_v2.
ParamsSet ==
    [use_mech_marketplace : BOOLEAN,
     is_marketplace_v2 : {"true", "false", "null"},
     wrapped_configured : BOOLEAN,      \* params.mech_wrapped_native_token_address is set
     multisend_batch_size : 1..MaxBatchSize]

\* SynchronizedData.mech_requests with n queued requests, identified by nonce.
MechRequestsOf(n) == [i \in 1..n |-> i]

using_native == mech_payment_type = "NATIVE"
using_token == mech_payment_type = "TOKEN"
using_nevermined == mech_payment_type \in NVM_PAYMENT_TYPES

should_use_marketplace_v2 ==
    params.use_mech_marketplace /\ params.is_marketplace_v2 = "true"

total_nvm_balance ==
    IF subscription_balance # None /\ nvm_balance # None
    THEN subscription_balance + nvm_balance
    ELSE None

RECURSIVE SumValues(_)
\* A variant of the sum that takes the value of the first leg only.
SumValues_first_leg(batches) ==
    IF batches = <<>> THEN 0 ELSE Head(batches).value

SumValues(batches) ==
    IF batches = <<>> THEN 0
    ELSE Head(batches).value + SumValues(Tail(batches))

txs_value == SumValues(multisend_batches)

\* hash_payload_to_hex(safe_tx_hash, txs_value, SAFE_GAS, multisend_address, multisend_data, op)
tx_hex == [safe_tx_hash |-> safe_tx_hash, value |-> txs_value, data |-> multisend_data]

\* MultisendBatch(to, data, value=0): data is the call the leg encodes.
MultisendBatch(to, fn, arg, value) ==
    [to |-> to, data |-> [fn |-> fn, arg |-> arg], value |-> value]

\* The attributes set by MechRequestBehaviour.__init__ (and by the
\* constructor of its base class for the multisend attributes).
BehaviourInitAttrs ==
    [v1_hex_truncated |-> None, request_data |-> [encoder |-> "none", cid |-> None],
     price |-> 0,
     mech_requests |-> <<>>, pending_responses |-> <<>>,
     token_balance |-> 0, wallet_balance |-> 0,
     mech_payment_type |-> "None", mech_max_delivery_rate |-> None,
     subscription_balance |-> None, nvm_balance |-> None,
     balance_tracker |-> FALSE,
     multisend_batches |-> <<>>, multisend_data |-> <<>>,
     safe_tx_hash |-> [set |-> FALSE, value |-> 0, data |-> <<>>]]

\* A variant of wait_for_condition_with_sleep that goes on after the first
\* evaluation of the step, whatever it returned.
wait_for_condition_once(satisfied, here, next) == next

\* wait_for_condition_with_sleep(step): the step is evaluated again, after a
\* sleep, until it returns True; only then the caller goes on.
wait_for_condition_with_sleep(satisfied, here, next) ==
    IF satisfied THEN next ELSE here

\* The bookkeeping of one evaluation of a waited-for step.
Waited(satisfied) ==
    /\ satisfied \/ attempts < MaxAttempts
    /\ attempts' = IF satisfied THEN 0 ELSE attempts + 1

CurrentStep == IF pc = "steps" /\ step_i <= Len(steps) THEN steps[step_i] ELSE "none"

RECURSIVE Repeat(_, _)
Repeat(pair, n) == IF n = 0 THEN <<>> ELSE pair \o Repeat(pair, n - 1)

Min(a, b) == IF a <= b THEN a ELSE b

\* request.py:857-859: the steps that follow the balance resolution.
StepList(first) ==
    first
    \o Repeat(<<"_send_metadata_to_ipfs", "_build_request_data">>,
              Min(params.multisend_batch_size, Len(mech_requests)))
    \o <<"_build_multisend_data", "_build_multisend_safe_tx_hash">>

MechRequestPayload(kind, tx, pr, requests, responses) ==
    [kind |-> kind, tx_hex |-> tx, price |-> pr,
     mech_requests |-> requests, mech_responses |-> responses]

NoPayload ==
    [kind |-> "none", tx_hex |-> [safe_tx_hash |-> BehaviourInitAttrs.safe_tx_hash,
                                  value |-> 0, data |-> <<>>],
     price |-> None, mech_requests |-> <<>>, mech_responses |-> <<>>]

NoTx == NoPayload.tx_hex

(***************************************************************************)
(* MechInteractAbciApp: the rounds, the events and the transition table.   *)
(***************************************************************************)
NonFinalRounds ==
    {"MechVersionDetectionRound", "MechInformationRound", "MechRequestRound",
     "MechPurchaseSubscriptionRound", "MechResponseRound"}

final_states ==
    {"FinishedMarketplaceLegacyDetectedRound", "FinishedMechLegacyDetectedRound",
     "FinishedMechInformationRound", "FailedMechInformationRound",
     "FinishedMechRequestRound", "FinishedMechResponseRound",
     "FinishedMechResponseTimeoutRound", "FinishedMechRequestSkipRound",
     "FinishedMechPurchaseSubscriptionRound"}

\* A variant of the initial states that holds the initial round only.
initial_states_initial_round_only == {"MechVersionDetectionRound"}

initial_states ==
    {"MechVersionDetectionRound", "MechRequestRound", "MechResponseRound"}

NoTransitions == [e \in {} |-> "none"]

transition_function ==
    [MechVersionDetectionRound |->
        [v2 |-> "MechInformationRound",
         v1 |-> "FinishedMarketplaceLegacyDetectedRound",
         no_marketplace |-> "FinishedMechLegacyDetectedRound",
         no_majority |-> "MechVersionDetectionRound",
         round_timeout |-> "MechVersionDetectionRound"],
     MechInformationRound |->
        [done |-> "FinishedMechInformationRound",
         none |-> "FailedMechInformationRound",
         no_majority |-> "MechInformationRound",
         round_timeout |-> "MechInformationRound"],
     MechRequestRound |->
        [done |-> "FinishedMechRequestRound",
         skip_request |-> "FinishedMechRequestSkipRound",
         buy_subscription |-> "MechPurchaseSubscriptionRound",
         no_majority |-> "MechRequestRound",
         round_timeout |-> "MechRequestRound"],
     MechPurchaseSubscriptionRound |->
        [done |-> "FinishedMechPurchaseSubscriptionRound",
         none |-> "MechPurchaseSubscriptionRound",
         no_majority |-> "MechPurchaseSubscriptionRound",
         round_timeout |-> "MechPurchaseSubscriptionRound"],
     MechResponseRound |->
        [done |-> "FinishedMechResponseRound",
         no_majority |-> "MechResponseRound",
         round_timeout |-> "FinishedMechResponseTimeoutRound"],
     FinishedMarketplaceLegacyDetectedRound |-> NoTransitions,
     FinishedMechLegacyDetectedRound |-> NoTransitions,
     FinishedMechInformationRound |-> NoTransitions,
     FailedMechInformationRound |-> NoTransitions,
     FinishedMechRequestRound |-> NoTransitions,
     FinishedMechResponseRound |-> NoTransitions,
     FinishedMechResponseTimeoutRound |-> NoTransitions,
     FinishedMechRequestSkipRound |-> NoTransitions,
     FinishedMechPurchaseSubscriptionRound |-> NoTransitions]

\* The events each round class can end with: the done, negative, none and
\* no-majority events of a VotingRound, and the done, none and no-majority
\* events of a CollectSameUntilThresholdRound.
MechVersionDetectionRound_none_event == {"v2", "v1", "none", "no_majority"}

MechVersionDetectionRound == {"v2", "v1", "no_marketplace", "no_majority"}

MechPurchaseSubscriptionRound == {"done", "none", "no_majority"}

MechInformationRound == {"done", "none", "no_majority"}

MechRequestRound == {"done", "skip_request", "buy_subscription", "no_majority"}

MechResponseRound == {"done", "no_majority"}

\* The events that fire when a round does not end within their timeout.
event_to_timeout == {"round_timeout"}

\* Every event that can end round r.
RoundEvents(r) ==
    CASE r = "MechVersionDetectionRound" -> MechVersionDetectionRound \cup event_to_timeout
      [] r = "MechInformationRound" -> MechInformationRound \cup event_to_timeout
      [] r = "MechRequestRound" -> MechRequestRound \cup event_to_timeout
      [] r = "MechPurchaseSubscriptionRound" ->
            MechPurchaseSubscriptionRound \cup event_to_timeout
      [] r = "MechResponseRound" -> MechResponseRound \cup event_to_timeout
      [] OTHER -> {}

\* The built-in set(iterable): the set of the items that iterating over its
\* argument yields.
set(iterable) == {iterable[i] : i \in DOMAIN iterable}

\* Iterating over a string yields its characters: the characters of
\* get_name(SynchronizedData.mech_responses).
mech_responses_characters ==
    <<"m", "e", "c", "h", "_", "r", "e", "s", "p", "o", "n", "s", "e", "s">>

\* The keys of SynchronizedData that the application declares as written
\* when it reaches each final round.
db_post_conditions ==
    [FinishedMarketplaceLegacyDetectedRound |-> {"is_marketplace_v2"},
     FinishedMechLegacyDetectedRound |-> {"is_marketplace_v2"},
     FinishedMechInformationRound |->
        {"is_marketplace_v2", "mechs_info", "relevant_mechs_info", "mech_tools",
         "priority_mech_address"},
     FailedMechInformationRound |-> {},
     FinishedMechRequestRound |-> {"tx_submitter", "most_voted_tx_hash", "mech_price"},
     FinishedMechRequestSkipRound |-> {},
     FinishedMechPurchaseSubscriptionRound |-> {"tx_submitter", "most_voted_tx_hash"},
     FinishedMechResponseRound |-> set(mech_responses_characters),
     FinishedMechResponseTimeoutRound |-> {}]

\* The keys that the agreed payload of MechPurchaseSubscriptionRound is
\* written to.
selection_key == {"tx_submitter", "most_voted_tx_hash"}

\* A variant of NextRound in which a timeout of the information round ends
\* the application instead of re-entering the round.
NextRound_timeout_fails(r, e) ==
    IF r = "MechInformationRound" /\ e = "round_timeout"
    THEN "FailedMechInformationRound"
    ELSE transition_function[r][e]

\* A variant of NextRound in which a detected legacy marketplace continues
\* with the information round.
NextRound_v1_to_information(r, e) ==
    IF r = "MechVersionDetectionRound" /\ e = "v1"
    THEN "MechInformationRound"
    ELSE transition_function[r][e]

\* A variant of NextRound in which a timeout re-enters the response round.
NextRound_response_timeout_retries(r, e) ==
    IF r = "MechResponseRound" /\ e = "round_timeout"
    THEN "MechResponseRound"
    ELSE transition_function[r][e]

\* A variant of NextRound in which a subscription purchase is also started
\* when no request is pending.
NextRound_skip_buys(r, e) ==
    IF r = "MechRequestRound" /\ e = "skip_request"
    THEN "MechPurchaseSubscriptionRound"
    ELSE transition_function[r][e]

\* The round the application is in after event e ends round r.
NextRound(r, e) == transition_function[r][e]

\* The votes of VotingPayload (True, False, None) and the mark of an agent
\* whose payload has not arrived.
VoteValues == {"true", "false", "null"}

Absent == "absent"

NoVotes == [a \in 1..NumAgents |-> Absent]

\* The values of the key is_marketplace_v2 of SynchronizedData.
DbValues == VoteValues \cup {"unset"}

FsmInit(rounds, values) ==
    /\ current_round \in rounds
    /\ round_history = <<>>
    /\ event_history = <<>>
    /\ is_marketplace_v2 \in values
    /\ participant_to_votes = NoVotes

\* The threshold of agreeing payloads that ends a round: more than two
\* thirds of the participants.
consensus_threshold == (2 * NumAgents + 3) \div 3

vote_count(votes, v) == Cardinality({a \in DOMAIN votes : votes[a] = v})

\* No vote can reach the threshold any more, even if every missing payload
\* agreed with the most voted one.
is_majority_possible(votes) ==
    \E v \in VoteValues :
        vote_count(votes, v) + vote_count(votes, Absent) >= consensus_threshold

NoResult == "no_result"

\* VotingRound.end_block on the collected votes: the event of the vote that
\* reached the threshold, NO_MAJORITY when none can reach it, and no result
\* while the round waits for more payloads.
super_end_block(votes) ==
    IF vote_count(votes, "true") >= consensus_threshold THEN "v2"
    ELSE IF vote_count(votes, "false") >= consensus_threshold THEN "v1"
    ELSE IF vote_count(votes, "null") >= consensus_threshold THEN "no_marketplace"
    ELSE IF ~is_majority_possible(votes) THEN "no_majority"
    ELSE NoResult

\* A variant of IsV2After that records every detected marketplace as v2.
IsV2After_any_marketplace(event, before) ==
    IF event \in {"v2", "v1", "no_marketplace"}
    THEN (IF event = "no_marketplace" THEN "null" ELSE "true")
    ELSE before

\* The value of is_marketplace_v2 in the SynchronizedData that end_block
\* returns with the event, given its value before.
IsV2After(event, before) ==
    IF event \in {"v2", "v1", "no_marketplace"}
    THEN (IF event = "no_marketplace" THEN "null"
          ELSE IF event = "v2" THEN "true" ELSE "false")
    ELSE before

\* The collection of the instance of the round that runs after round r
\* ended in round next: a round that is entered again starts a new instance,
\* which has collected nothing.
VotesAfter(r, next, votes) == IF next = r THEN NoVotes ELSE votes

\* The round receives the payload of one more participant.
process_payload ==
    /\ current_round = "MechVersionDetectionRound"
    /\ Len(event_history) < MaxEvents
    /\ \E a \in 1..NumAgents, v \in VoteValues :
          /\ participant_to_votes[a] = Absent
          /\ participant_to_votes' = [participant_to_votes EXCEPT ![a] = v]
    /\ UNCHANGED <<current_round, round_history, event_history, is_marketplace_v2,
                   purVars, builtVars, reqVars, infoVars, rankVars>>

\* MechVersionDetectionRound.end_block at the end of a block.
end_block ==
    /\ current_round = "MechVersionDetectionRound"
    /\ Len(event_history) < MaxEvents
    /\ LET res == super_end_block(participant_to_votes) IN
          IF res = NoResult
          THEN UNCHANGED fsmVars
          ELSE /\ res \in DOMAIN transition_function[current_round]
               /\ is_marketplace_v2' = IsV2After(res, is_marketplace_v2)
               /\ current_round' = NextRound(current_round, res)
               /\ round_history' = Append(round_history, current_round)
               /\ event_history' = Append(event_history, res)
               /\ participant_to_votes' =
                     VotesAfter(current_round, NextRound(current_round, res),
                                participant_to_votes)
    /\ UNCHANGED <<purVars, builtVars, reqVars, infoVars, rankVars>>

\* One round ends with one of its events, which the application looks up in
\* the row of the round.
FsmStep ==
    /\ Len(event_history) < MaxEvents
    /\ \E e \in (IF current_round = "MechVersionDetectionRound"
                THEN event_to_timeout ELSE RoundEvents(current_round)) :
          /\ e \in DOMAIN transition_function[current_round]
          /\ current_round' = NextRound(current_round, e)
          /\ round_history' = Append(round_history, current_round)
          /\ event_history' = Append(event_history, e)
          /\ participant_to_votes' =
                VotesAfter(current_round, NextRound(current_round, e),
                           participant_to_votes)
    /\ UNCHANGED <<is_marketplace_v2, purVars, builtVars, reqVars, infoVars, rankVars>>

(***************************************************************************)
(* MechInformationBehaviour and QueryingBehaviour: the subgraph fetch, the *)
(* tools fetch and their retry counters.  One action is one resumption of  *)
(* the behaviour with the response of an HTTP request.                     *)
(***************************************************************************)
\* ApiSpecs.is_retries_exceeded, on the counter and the configured retries.
is_retries_exceeded(attempted, retries) == attempted > retries

\* MechParams.irrelevant_tools and the answers of the tools endpoint of a
\* mech: the tools its metadata lists, or a response that process_response
\* turns into None (ok is FALSE).
irrelevant_tools == {"irrelevant_tool"}

ToolAnswers ==
    {[ok |-> FALSE, tools |-> {}]}
    \cup {[ok |-> TRUE, tools |-> t] : t \in {{}, {"irrelevant_tool"}, {"tool"}}}

\* A mech as the subgraph returns it, before its tools are populated.
FetchedMech(id) == [id |-> id, relevant_tools |-> {}]

RECURSIVE FetchedBatch(_, _)
FetchedBatch(after, n) ==
    IF n = 0 THEN <<>> ELSE <<FetchedMech(after + 1)>> \o FetchedBatch(after + 1, n - 1)

\* The first mech at or after position from that populate_tools does not
\* skip, 0 when there is none.
RECURSIVE NextToPopulate(_, _)
NextToPopulate(mechs, from) ==
    IF from > Len(mechs) THEN 0
    ELSE IF mechs[from].relevant_tools # {} THEN NextToPopulate(mechs, from + 1)
    ELSE from

NoFailures == [m \in 1..MaxMechs |-> 0]

InfoFresh ==
    /\ info_pc = "start"
    /\ fetch_status = "NONE"
    /\ call_failed = FALSE
    /\ subgraph_attempted = 0
    /\ tools_attempted = 0
    /\ fetched = <<>>
    /\ populate_i = 0
    /\ info_payload = "unset"
    /\ tool_failures = NoFailures

InfoInit ==
    /\ api_retries \in [subgraph : 0..MaxRetries, tools : 0..MaxRetries]
    /\ InfoFresh

\* The information behaviour while another component is looked at.
InfoIdle ==
    /\ api_retries = [subgraph |-> 0, tools |-> 0]
    /\ InfoFresh

\* async_act up to the first request of fetch_mechs_info.
fetch_mechs_info ==
    /\ info_pc = "start"
    /\ fetch_status' = "IN_PROGRESS"
    /\ fetched' = <<>>
    /\ info_pc' = "fetch_mechs_info_batch"
    /\ UNCHANGED <<purVars, builtVars, reqVars, fsmVars, rankVars, api_retries, call_failed,
                   subgraph_attempted, tools_attempted, populate_i, info_payload,
                   tool_failures>>

\* _handle_response for a failed response: the status after the counter was
\* incremented to attempted.
FetchStatusAfterFailure(attempted) ==
    IF is_retries_exceeded(attempted, api_retries.subgraph) THEN "FAIL" ELSE fetch_status

\* One batch answered by the subgraph: fetch_mechs_info_batch with
\* _handle_response, the loop of fetch_mechs_info and, when that returns, the
\* checks of get_mechs_info and the payload of async_act.  res is None for a
\* failed response, otherwise the number of mechs of the batch.
fetch_mechs_info_batch ==
    /\ info_pc = "fetch_mechs_info_batch"
    /\ \E res \in {None} \cup 0..(MaxMechs - Len(fetched)) :
          IF res = None
          THEN /\ call_failed' = TRUE
               /\ subgraph_attempted' = subgraph_attempted + 1
               /\ fetch_status' = FetchStatusAfterFailure(subgraph_attempted + 1)
               /\ info_payload' = "None"
               /\ info_pc' = "done"
               /\ UNCHANGED <<fetched, populate_i>>
          ELSE /\ call_failed' = FALSE
               /\ subgraph_attempted' = 0
               /\ fetch_status' = "SUCCESS"
               /\ IF res # 0
                  THEN /\ fetched' = fetched \o FetchedBatch(Len(fetched), res)
                       /\ info_pc' = info_pc
                       /\ UNCHANGED <<info_payload, populate_i>>
                  ELSE IF fetched = <<>>
                       THEN /\ info_payload' = "None"
                            /\ info_pc' = "done"
                            /\ UNCHANGED <<fetched, populate_i>>
                       ELSE /\ populate_i' = NextToPopulate(fetched, 1)
                            /\ info_pc' = "populate_tools"
                            /\ UNCHANGED <<fetched, info_payload>>
    /\ UNCHANGED <<purVars, builtVars, reqVars, fsmVars, rankVars, api_retries, tools_attempted,
                   tool_failures>>

\* The tools stored for a mech whose metadata lists the tools res.
RelevantToolsAfter(mech, res) == mech.relevant_tools \cup (res \ irrelevant_tools)

\* mech_tools_api.retries_attempted after the tools of a mech were fetched.
ToolsAttemptedAfterSuccess == 0

\* json.dumps([asdict(info) for info in mech_info]) of get_mechs_info, with
\* the default encoder: asdict leaves relevant_tools the set that
\* __post_init__ and populate_tools make it, and the default encoder raises
\* TypeError for a set.
json_dumps(infos) ==
    IF \E i \in DOMAIN infos : "relevant_tools" \in DOMAIN infos[i]
    THEN "TypeError"
    ELSE "mechs_info"

\* One tools response for the mech at populate_i: the body of the loop of
\* populate_tools and, when populate_tools returns, the loop of
\* get_mechs_info, its serialisation and the payload of async_act.
populate_tools ==
    /\ info_pc = "populate_tools"
    /\ \E res \in ToolAnswers :
          IF ~res.ok
          THEN /\ tool_failures[populate_i] < MaxToolFailures
               /\ tool_failures' = [tool_failures EXCEPT ![populate_i] = @ + 1]
               /\ UNCHANGED fetched
               /\ IF is_retries_exceeded(tools_attempted + 1, api_retries.tools)
                  THEN /\ tools_attempted' = 0
                       /\ info_payload' = "None"
                       /\ info_pc' = "done"
                       /\ UNCHANGED populate_i
                  ELSE /\ tools_attempted' = tools_attempted + 1
                       /\ populate_i' = NextToPopulate(fetched, 1)
                       /\ UNCHANGED <<info_payload, info_pc>>
          ELSE LET populated ==
                       [fetched EXCEPT ![populate_i].relevant_tools =
                            RelevantToolsAfter(fetched[populate_i], res.tools)]
                   next == NextToPopulate(populated, populate_i + 1)
               IN  /\ fetched' = populated
                   /\ tool_failures' = [tool_failures EXCEPT ![populate_i] = 0]
                   /\ tools_attempted' = ToolsAttemptedAfterSuccess
                   /\ IF next = 0
                      THEN /\ IF json_dumps(populated) = "TypeError"
                              THEN /\ info_pc' = "raised"
                                   /\ UNCHANGED info_payload
                              ELSE /\ info_payload' = json_dumps(populated)
                                   /\ info_pc' = "done"
                           /\ UNCHANGED populate_i
                      ELSE /\ populate_i' = next
                           /\ UNCHANGED <<info_payload, info_pc>>
    /\ UNCHANGED <<purVars, builtVars, reqVars, fsmVars, rankVars, api_retries, fetch_status, call_failed,
                   subgraph_attempted>>

(***************************************************************************)
(* MechInfo: the ranking order and the ranking accessors of                *)
(* SynchronizedData.  Scores are floats in the code; here they are kept in *)
(* fixed point, in ticks of 1 / TicksPerUnit, rounded down.                *)
(***************************************************************************)
TicksPerUnit == 2 * 1000000000

\* MACHINE_EPS = 1e-9, in ticks.
MACHINE_EPS == TicksPerUnit \div 1000000000

HALF_LIFE_SECONDS == 60 * 60

\* The weights, as fractions: 0.1, 0.45 and 0.45.
DELIVERY_RATE_METRIC_WEIGHT == <<1, 10>>
LIVENESS_METRIC_WEIGHT == <<9, 20>>
DELIVERED_RATIO_METRIC_WEIGHT == <<9, 20>>

LAPLACE_SMOOTHING_ALPHA == 8
LAPLACE_SMOOTHING_BETA == 1

\* The time at which the liveness is evaluated (time.time()).
Now == (MaxHalfLives + 1) * HALF_LIFE_SECONDS

Abs(x) == IF x < 0 THEN 0 - x ELSE x

RECURSIVE Pow2(_)
Pow2(n) == IF n = 0 THEN 1 ELSE 2 * Pow2(n - 1)

\* Long division: the first n decimal digits of r / b (r < b) and the
\* remainder left after them.
RECURSIVE LongDiv(_, _, _, _)
LongDiv(q, r, b, n) ==
    IF n = 0 THEN <<q, r>>
    ELSE LongDiv(q * 10 + ((r * 10) \div b), (r * 10) % b, b, n - 1)

\* a / b in ticks.
Ratio(a, b) ==
    LET digits == LongDiv(0, a % b, b, 9)
    IN  (a \div b) * TicksPerUnit + 2 * digits[1] + ((2 * digits[2]) \div b)

\* weight * metric in ticks.
Weighted(weight, metric) ==
    weight[1] * (metric \div weight[2]) + ((weight[1] * (metric % weight[2])) \div weight[2])

COLD_START_LIVENESS ==
    Ratio(LAPLACE_SMOOTHING_ALPHA, LAPLACE_SMOOTHING_ALPHA + LAPLACE_SMOOTHING_BETA)

\* Service.liveness: exp(-age / taf) with taf = HALF_LIFE_SECONDS / ln 2,
\* that is 2 ^ -(age / HALF_LIFE_SECONDS); the ages of the model are whole
\* numbers of half-lives.
ServiceLiveness(service) ==
    IF service.last_delivered = None \/ service.last_delivered = 0 THEN 0
    ELSE LET elapsed == Now - service.last_delivered
             age == IF elapsed < 0 THEN 0 ELSE elapsed
         IN  TicksPerUnit \div Pow2(age \div HALF_LIFE_SECONDS)

\* MechInfo.delivery_rate_metric: 1 / (1 + ln(max_delivery_rate)), tabulated
\* for the delivery rates of the model.
delivery_rate_metric(instance) ==
    CASE instance.max_delivery_rate = 1 -> TicksPerUnit
      [] instance.max_delivery_rate = 2 -> 1181232218
      [] instance.max_delivery_rate = 3 -> 953010716
      [] instance.max_delivery_rate = 4 -> 838119568

\* A variant of MechInfo.liveness without the constant of the cold start.
liveness_of_service(instance) == ServiceLiveness(instance.service)

liveness(instance) ==
    IF instance.received_requests = 0 THEN COLD_START_LIVENESS
    ELSE ServiceLiveness(instance.service)

delivered_ratio_smoothed(instance) ==
    Ratio(instance.self_delivered + LAPLACE_SMOOTHING_ALPHA,
          instance.received_requests + LAPLACE_SMOOTHING_ALPHA + LAPLACE_SMOOTHING_BETA)

score(instance) ==
    Weighted(DELIVERY_RATE_METRIC_WEIGHT, delivery_rate_metric(instance))
    + Weighted(LIVENESS_METRIC_WEIGHT, liveness(instance))
    + Weighted(DELIVERED_RATIO_METRIC_WEIGHT, delivered_ratio_smoothed(instance))

\* A variant of MechInfo.__lt__ in which a mech is also lower than a tied
\* mech of the same karma.
__lt___or_same_karma(self, other) ==
    LET s1 == score(self)
        s2 == score(other)
    IN  IF Abs(s1 - s2) < MACHINE_EPS
        THEN self.karma <= other.karma
        ELSE s1 < s2

\* MechInfo.__lt__
__lt__(self, other) ==
    LET s1 == score(self)
        s2 == score(other)
    IN  IF Abs(s1 - s2) < MACHINE_EPS
        THEN self.karma < other.karma
        ELSE s1 < s2

mech_tool == "tool"

RECURSIVE SelectRelevant(_)
SelectRelevant(infos) ==
    IF infos = <<>> THEN <<>>
    ELSE (IF mech_tool \in Head(infos).relevant_tools THEN <<Head(infos)>> ELSE <<>>)
         \o SelectRelevant(Tail(infos))

relevant_mechs_info(infos) == SelectRelevant(infos)

\* Python's max(): the first element that no later element exceeds, where x
\* exceeds the running maximum when maximum < x.
RECURSIVE RunningMax(_, _)
RunningMax(maximum, rest) ==
    IF rest = <<>> THEN maximum
    ELSE RunningMax(IF __lt__(maximum, Head(rest)) THEN Head(rest) ELSE maximum,
                    Tail(rest))

\* SynchronizedData.priority_mech, None when no mech is relevant.
priority_mech(infos) ==
    LET relevant == relevant_mechs_info(infos)
    IN  IF relevant # <<>> THEN RunningMax(Head(relevant), Tail(relevant)).id ELSE None

Reverse(seq) == [i \in 1..Len(seq) |-> seq[Len(seq) + 1 - i]]

\* Python's list.sort() for lists below its merge threshold: the leading run
\* is found and made ascending, the other elements are inserted by binary
\* search, and reverse=True reverses the list before and after.
RECURSIVE RunEnd(_, _, _)
RunEnd(seq, i, descending) ==
    IF i > Len(seq) THEN i - 1
    ELSE IF __lt__(seq[i], seq[i - 1]) = descending THEN RunEnd(seq, i + 1, descending)
    ELSE i - 1

RECURSIVE BinarySearch(_, _, _, _)
BinarySearch(seq, pivot, l, r) ==
    IF l >= r THEN l
    ELSE LET p == l + ((r - l) \div 2)
         IN  IF __lt__(pivot, seq[p])
             THEN BinarySearch(seq, pivot, l, p)
             ELSE BinarySearch(seq, pivot, p + 1, r)

MoveTo(seq, pos, start) ==
    SubSeq(seq, 1, pos - 1) \o <<seq[start]>> \o SubSeq(seq, pos, start - 1)
    \o SubSeq(seq, start + 1, Len(seq))

RECURSIVE BinarySort(_, _)
BinarySort(seq, start) ==
    IF start > Len(seq) THEN seq
    ELSE BinarySort(MoveTo(seq, BinarySearch(seq, seq[start], 1, start), start), start + 1)

ListSort(seq, reverse) ==
    IF Len(seq) < 2 THEN seq
    ELSE LET a == IF reverse THEN Reverse(seq) ELSE seq
             descending == __lt__(a[2], a[1])
             n == RunEnd(a, 3, descending)
             b == IF descending
                  THEN Reverse(SubSeq(a, 1, n)) \o SubSeq(a, n + 1, Len(a))
                  ELSE a
             c == BinarySort(b, n + 1)
         IN  IF reverse THEN Reverse(c) ELSE c

Ids(infos) == [i \in 1..Len(infos) |-> infos[i].id]

\* SynchronizedData.ranked_mechs, as the list of the mechs' ids.
ranked_mechs(infos) ==
    LET relevant == relevant_mechs_info(infos)
    IN  IF relevant # <<>> THEN Ids(ListSort(relevant, TRUE)) ELSE <<>>

\* The mechs' information the model ranges over.
MechInfo(id, karma, received, last_delivered, rate) ==
    [id |-> id, karma |-> karma,
     service |-> [last_delivered |-> last_delivered],
     received_requests |-> received, self_delivered |-> received,
     max_delivery_rate |-> rate, relevant_tools |-> {mech_tool}]

ReceivedRequests == {0} \cup {BusyRequests + d : d \in 0..MaxSpread}

LastDelivered == {Now - h * HALF_LIFE_SECONDS : h \in 1..MaxHalfLives}

RankFresh ==
    /\ lt = [set |-> FALSE, pairs |-> {}]
    /\ priority = <<>>
    /\ ranked = <<>>

RankInit ==
    /\ \E karma \in [1..NumMechs -> 0..MaxKarma],
          received \in [1..NumMechs -> ReceivedRequests],
          delivered \in [1..NumMechs -> LastDelivered],
          rate \in [1..NumMechs -> 1..MaxDeliveryRate] :
          mechs_info = [i \in 1..NumMechs |->
                           MechInfo(i, karma[i], received[i], delivered[i], rate[i])]
    /\ \E f \in Permutations(1..NumMechs) :
          mechs_info_reordered = [i \in 1..NumMechs |-> mechs_info[f[i]]]
    /\ RankFresh

\* The ranking while another component is looked at.
RankIdle ==
    /\ mechs_info = <<>>
    /\ mechs_info_reordered = <<>>
    /\ RankFresh

\* Every pair of mechs of mechs_info is compared.
Compare ==
    /\ ~lt.set
    /\ lt' = [set |-> TRUE,
              pairs |-> {<<i, j>> \in (DOMAIN mechs_info) \X (DOMAIN mechs_info) :
                            __lt__(mechs_info[i], mechs_info[j])}]
    /\ UNCHANGED <<purVars, builtVars, reqVars, fsmVars, infoVars, mechs_info, mechs_info_reordered,
                   priority, ranked>>

\* priority_mech is read for both orders of the mechs' information.
GetPriorityMech ==
    /\ priority = <<>>
    /\ priority' = <<priority_mech(mechs_info), priority_mech(mechs_info_reordered)>>
    /\ UNCHANGED <<purVars, builtVars, reqVars, fsmVars, infoVars, mechs_info, mechs_info_reordered,
                   lt, ranked>>

\* ranked_mechs is read for both orders of the mechs' information.
GetRankedMechs ==
    /\ ranked = <<>>
    /\ ranked' = <<ranked_mechs(mechs_info), ranked_mechs(mechs_info_reordered)>>
    /\ UNCHANGED <<purVars, builtVars, reqVars, fsmVars, infoVars, mechs_info, mechs_info_reordered,
                   lt, priority>>

(***************************************************************************)
(* MechInfo(kwargs) and MechsSubgraph.filter_info.  A value given as a   *)
(* keyword is an int or a string of digits; the counts of an instance are  *)
(* numbers, its karma is kept as it is left by __post_init__.              *)
(***************************************************************************)
IntValue(n) == [t |-> "int", v |-> n]
StrValue(n) == [t |-> "str", v |-> n]

\* int(value)
int(value) == IntValue(value.v)

\* The values of the camelCase keywords: left out (the default 0) or the
\* strings of the subgraph.
CamelValues == {IntValue(0)} \cup {StrValue(n) : n \in 0..MaxCount}

\* Service.metadata_str: None without a nested item, otherwise the string
\* without its prefix.
metadata_str(service) ==
    IF service.metadata = <<>> THEN "None" ELSE service.metadata[1].metadata

Services ==
    [metadata : {<<>>, <<[metadata |-> "ab"]>>},
     last_delivered : {None} \cup LastDelivered]

Kwargs ==
    [id : {0},
     karma : {IntValue(n) : n \in 0..MaxCount} \cup {StrValue(n) : n \in 0..MaxCount},
     receivedRequests : CamelValues,
     selfDeliveredFromReceived : CamelValues,
     maxDeliveryRate : CamelValues,
     received_requests : 0..MaxCount,
     self_delivered : 0..MaxCount,
     max_delivery_rate : 0..MaxCount,
     service : Services,
     relevant_tools : {<<>>, <<mech_tool>>}]

\* The fields of the dataclass before __post_init__ runs.
Fields(kwargs) ==
    [id |-> kwargs.id, karma |-> kwargs.karma, service |-> kwargs.service,
     received_requests |-> kwargs.received_requests,
     self_delivered |-> kwargs.self_delivered,
     max_delivery_rate |-> kwargs.max_delivery_rate,
     relevant_tools |-> {kwargs.relevant_tools[i] : i \in DOMAIN kwargs.relevant_tools}]

\* A variant of __post_init__ whose loop goes on to the next field where
\* the code returns.
__post_init___continue(kwargs) ==
    [Fields(kwargs) EXCEPT
        !.received_requests = IF @ # 0 THEN @ ELSE int(kwargs.receivedRequests).v,
        !.self_delivered = IF @ # 0 THEN @ ELSE int(kwargs.selfDeliveredFromReceived).v,
        !.max_delivery_rate = IF @ # 0 THEN @ ELSE int(kwargs.maxDeliveryRate).v,
        !.karma = int(@)]

\* MechInfo.__post_init__: the loop over the three counts returns from the
\* method at the first count that was given in snake case.
__post_init__(kwargs) ==
    LET self == Fields(kwargs)
        one == [self EXCEPT !.received_requests = int(kwargs.receivedRequests).v]
        two == [one EXCEPT !.self_delivered = int(kwargs.selfDeliveredFromReceived).v]
        three == [two EXCEPT !.max_delivery_rate = int(kwargs.maxDeliveryRate).v]
    IN  IF self.received_requests # 0 THEN self
        ELSE IF one.self_delivered # 0 THEN one
        ELSE IF two.max_delivery_rate # 0 THEN two
        ELSE [three EXCEPT !.karma = int(@)]

empty_metadata(instance) == metadata_str(instance.service) = "None"

\* A variant of filter_info that keeps the mechs without metadata.
RECURSIVE filter_info_by_rate(_, _)
filter_info_by_rate(unfiltered, delivery_rate_cap) ==
    IF unfiltered = <<>> THEN <<>>
    ELSE LET mech_info == [__post_init__(Head(unfiltered)) EXCEPT !.karma = @.v]
         IN  (IF mech_info.max_delivery_rate <= delivery_rate_cap
              THEN <<mech_info>> ELSE <<>>)
             \o filter_info_by_rate(Tail(unfiltered), delivery_rate_cap)

\* MechsSubgraph.filter_info
RECURSIVE filter_info(_, _)
filter_info(unfiltered, delivery_rate_cap) ==
    IF unfiltered = <<>> THEN <<>>
    ELSE LET mech_info == [__post_init__(Head(unfiltered)) EXCEPT !.karma = @.v]
         IN  (IF ~empty_metadata(mech_info)
                 /\ mech_info.max_delivery_rate <= delivery_rate_cap
              THEN <<mech_info>> ELSE <<>>)
             \o filter_info(Tail(unfiltered), delivery_rate_cap)

\* The items of a response of the subgraph: camelCase strings only.
SubgraphItems ==
    {k \in Kwargs :
        /\ k.karma = StrValue(0) /\ k.receivedRequests = StrValue(0)
        /\ k.selfDeliveredFromReceived = StrValue(0)
        /\ k.maxDeliveryRate.t = "str" /\ k.maxDeliveryRate.v > 0
        /\ k.received_requests = 0 /\ k.self_delivered = 0 /\ k.max_delivery_rate = 0
        /\ k.service.last_delivered = None
        /\ k.relevant_tools = <<>>}

\* ---- MechMarketplaceConfig and MechParams: the validation at construction ----
\* The keywords of the skill's configuration.
ConfigValues == (0 - 1)..MaxCount

ConfigKwargs ==
    [multisend_address : {"None", "0xmultisend"},
     multisend_batch_size : ConfigValues,
     mech_interaction_sleep_time : ConfigValues,
     use_mech_marketplace : BOOLEAN,
     mech_marketplace_config :
        [mech_marketplace_address : {"", "0xmarketplace"},
         response_timeout : ConfigValues,
         priority_mech_address : {"None", "0xmech"},
         use_dynamic_mech_selection : BOOLEAN],
     agent_registry_address : {"None", "0xregistry"}]

\* MechMarketplaceConfig(**kwargs): the frozen dataclass, or the error of
\* __post_init__.
MechMarketplaceConfig(config) ==
    IF config.response_timeout <= 0 THEN "ValueError" ELSE "MechMarketplaceConfig"

\* validate_configuration without the check of the batch size.
validate_configuration_without_batch_size(kwargs) ==
    LET config == kwargs.mech_marketplace_config
    IN  IF /\ kwargs.use_mech_marketplace
           /\ \/ config.mech_marketplace_address = ""
              \/ /\ config.priority_mech_address = "None"
                 /\ ~config.use_dynamic_mech_selection
        THEN "ValueError"
        ELSE IF kwargs.mech_interaction_sleep_time <= 0 THEN "ValueError"
        ELSE "None"

\* MechParams.validate_configuration: every error is raised again as a
\* ValueError.
validate_configuration(kwargs) ==
    LET config == kwargs.mech_marketplace_config
    IN  IF /\ kwargs.use_mech_marketplace
           /\ \/ config.mech_marketplace_address = ""
              \/ /\ config.priority_mech_address = "None"
                 /\ ~config.use_dynamic_mech_selection
        THEN "ValueError"
        ELSE IF kwargs.mech_interaction_sleep_time <= 0 THEN "ValueError"
        ELSE IF kwargs.multisend_batch_size <= 0 THEN "ValueError"
        ELSE "None"

\* MechParams.__init__: the parameters, or the error that ends the
\* construction.
MechParams(kwargs) ==
    IF kwargs.multisend_address = "None" THEN "ValueError"
    ELSE IF MechMarketplaceConfig(kwargs.mech_marketplace_config) = "ValueError"
         THEN "ValueError"
    ELSE IF kwargs.agent_registry_address = "None" THEN "ValueError"
    ELSE IF validate_configuration(kwargs) = "ValueError" THEN "ValueError"
    ELSE "MechParams"

\* ---- MultisendBatch: the validation of a leg, and its append ----
\* The arguments a leg is constructed from: an address, None or something
\* that is not a string; an integer or None; HexBytes or a plain string.
LegTargets == {[t |-> "str", v |-> "0xmech"], [t |-> "str", v |-> ""],
               [t |-> "None", v |-> ""], [t |-> "int", v |-> "0xmech"]}
LegValues == {IntValue(n) : n \in (0 - 1)..MaxPrice} \cup {[t |-> "None", v |-> 0]}
LegData == {[t |-> "HexBytes"], [t |-> "str"]}

\* A variant of the validation that accepts every value.
MultisendBatch_post_init_any_value(to, data, value) ==
    IF to.v = "" \/ to.t # "str" THEN "ValueError"
    ELSE IF data.t # "HexBytes" THEN "ValueError"
    ELSE "None"

\* MultisendBatch.__post_init__: the error raised, or None.
MultisendBatch_post_init(to, data, value) ==
    IF to.v = "" \/ to.t # "str" THEN "ValueError"
    ELSE IF value.t = "None" THEN "TypeError"
    ELSE IF value.v < 0 THEN "ValueError"
    ELSE IF data.t # "HexBytes" THEN "ValueError"
    ELSE "None"

\* ---- QueryingBehaviour.fetch_mechs_info: the paging over the subgraph ----
\* The page size of the query, scaled down from 1000, and the largest
\* number of mechs the subgraph holds.
QUERY_BATCH_SIZE == 2
MaxSubgraphMechs == 4

\* The raw records the query returns: the first records, in ascending order
\* of id, among those with an id greater than mechs_id_gt.
RECURSIVE mechs_info_query(_, _, _)
mechs_info_query(first, mechs_id_gt, total) ==
    IF first = 0 \/ mechs_id_gt >= total THEN <<>>
    ELSE <<mechs_id_gt + 1>> \o mechs_info_query(first - 1, mechs_id_gt + 1, total)

\* MechsSubgraph.process_response of a page: filter_info keeps the records
\* with metadata and a delivery rate within the cap, the eligible ones.
process_response(page, eligible) == SelectSeq(page, LAMBDA id : id \in eligible)

\* Nothing has been built.
BuiltIdle == built = [op |-> "None"]

(***************************************************************************)
(* MechRequestBehaviour: the actions.  One action is one evaluation of a   *)
(* step by wait_for_condition_with_sleep, with the answers of the external *)
(* collaborators (contract calls, ledger calls, the IPFS upload) chosen    *)
(* nondeterministically.                                                   *)
(***************************************************************************)
\* The behaviour as constructed: MechRequestBehaviour.__init__.
ReqFresh ==
    /\ pc = "setup"
    /\ steps = <<>>
    /\ step_i = 1
    /\ attempts = 0
    /\ mech_requests = BehaviourInitAttrs.mech_requests
    /\ pending_responses = BehaviourInitAttrs.pending_responses
    /\ multisend_batches = BehaviourInitAttrs.multisend_batches
    /\ v1_hex_truncated = BehaviourInitAttrs.v1_hex_truncated
    /\ request_data = BehaviourInitAttrs.request_data
    /\ price = BehaviourInitAttrs.price
    /\ wallet_balance = BehaviourInitAttrs.wallet_balance
    /\ token_balance = BehaviourInitAttrs.token_balance
    /\ mech_payment_type = BehaviourInitAttrs.mech_payment_type
    /\ mech_max_delivery_rate = BehaviourInitAttrs.mech_max_delivery_rate
    /\ nvm_balance = BehaviourInitAttrs.nvm_balance
    /\ subscription_balance = BehaviourInitAttrs.subscription_balance
    /\ balance_tracker = BehaviourInitAttrs.balance_tracker
    /\ multisend_data = BehaviourInitAttrs.multisend_data
    /\ safe_tx_hash = BehaviourInitAttrs.safe_tx_hash
    /\ payload = NoPayload
    /\ shortage = 0
    /\ last_check = "none"
    /\ popped = <<>>
    /\ reentries = 0

ReqInit ==
    /\ params \in ParamsSet
    /\ \E n \in 0..MaxRequests : sync_mech_requests = MechRequestsOf(n)
    /\ ReqFresh

\* The request behaviour while another component is looked at.
ReqIdle ==
    /\ params = [use_mech_marketplace |-> TRUE, is_marketplace_v2 |-> "true",
                 wrapped_configured |-> TRUE, multisend_batch_size |-> 1]
    /\ sync_mech_requests = <<>>
    /\ ReqFresh

\* MechRequestBehaviour.setup
setup ==
    /\ pc = "setup"
    /\ mech_requests' = sync_mech_requests
    /\ pc' = "act"
    /\ UNCHANGED <<nonReqVars, params, sync_mech_requests, steps, step_i, attempts,
                   pending_responses, multisend_batches, v1_hex_truncated,
                   request_data, price, wallet_balance, token_balance,
                   mech_payment_type, mech_max_delivery_rate, nvm_balance,
                   subscription_balance, balance_tracker, multisend_data,
                   safe_tx_hash, payload, shortage, last_check, popped, reentries>>

\* async_act up to its first suspension: the skip payload when nothing is
\* pending, otherwise the start of _prepare_safe_tx.
\* A variant of async_act that ends without a payload when nothing is
\* pending.
async_act_silent_skip ==
    /\ pc = "act"
    /\ IF mech_requests = <<>>
       THEN /\ payload' = payload
            /\ pc' = "done"
       ELSE /\ payload' = payload
            /\ pc' = "_fetch_and_validate_payment_type"
    /\ UNCHANGED <<nonReqVars, params, sync_mech_requests, steps, step_i, attempts,
                   mech_requests, pending_responses, multisend_batches,
                   v1_hex_truncated, request_data, price, wallet_balance,
                   token_balance, mech_payment_type, mech_max_delivery_rate,
                   nvm_balance, subscription_balance, balance_tracker,
                   multisend_data, safe_tx_hash, shortage, last_check, popped, reentries>>

async_act ==
    /\ pc = "act"
    /\ IF mech_requests = <<>>
       THEN /\ payload' = MechRequestPayload("skip", NoTx, None, <<>>, <<>>)
            /\ pc' = "done"
       ELSE /\ payload' = payload
            /\ pc' = "_fetch_and_validate_payment_type"
    /\ UNCHANGED <<nonReqVars, params, sync_mech_requests, steps, step_i, attempts,
                   mech_requests, pending_responses, multisend_batches,
                   v1_hex_truncated, request_data, price, wallet_balance,
                   token_balance, mech_payment_type, mech_max_delivery_rate,
                   nvm_balance, subscription_balance, balance_tracker,
                   multisend_data, safe_tx_hash, shortage, last_check, popped, reentries>>

\* _fetch_and_validate_payment_type (with _get_payment_type and the
\* mech_payment_type setter): res is the contract's answer, "fail" when the
\* call fails, a value outside the enumeration when the type is unknown.
\* Returns whether the step succeeded.
FetchPaymentTypeOk(res) ==
    IF ~should_use_marketplace_v2 THEN TRUE
    ELSE res \in PaymentTypes

PaymentTypeAfter(res) ==
    IF should_use_marketplace_v2 /\ res \in PaymentTypes
    THEN res
    ELSE mech_payment_type

_fetch_and_validate_payment_type ==
    /\ pc = "_fetch_and_validate_payment_type"
    /\ \E res \in PaymentTypes \cup {"fail", "unknown"} :
          /\ Waited(FetchPaymentTypeOk(res))
          /\ mech_payment_type' = PaymentTypeAfter(res)
          /\ pc' = wait_for_condition_with_sleep(FetchPaymentTypeOk(res), pc, "_get_price")
    /\ UNCHANGED <<nonReqVars, params, sync_mech_requests, steps, step_i,
                   mech_requests, pending_responses, multisend_batches,
                   v1_hex_truncated, request_data, price, wallet_balance,
                   token_balance, mech_max_delivery_rate,
                   nvm_balance, subscription_balance, balance_tracker,
                   multisend_data, safe_tx_hash, payload, shortage, last_check, popped, reentries>>

\* _get_price: the max delivery rate for the marketplace v2 flow
\* (_fetch_and_validate_max_delivery_rate), the mech's price otherwise.
\* res is the contract's answer, None when the call fails.
GetPriceOk(res) == res # None

PriceAfter(res) ==
    IF res = None THEN price
    ELSE IF should_use_marketplace_v2
         THEN (IF using_native THEN res ELSE price)
         ELSE res

MaxDeliveryRateAfter(res) ==
    IF should_use_marketplace_v2 /\ res # None THEN res ELSE mech_max_delivery_rate

_get_price ==
    /\ pc = "_get_price"
    /\ \E res \in {None} \cup 1..MaxPrice :
          /\ Waited(GetPriceOk(res))
          /\ price' = PriceAfter(res)
          /\ mech_max_delivery_rate' = MaxDeliveryRateAfter(res)
          /\ IF ~GetPriceOk(res)
             THEN /\ pc' = wait_for_condition_with_sleep(FALSE, pc, pc)
                  /\ UNCHANGED <<steps, step_i>>
             ELSE IF using_nevermined
                  THEN /\ pc' = wait_for_condition_with_sleep(TRUE, pc, "set_total_nvm_balance")
                       /\ UNCHANGED <<steps, step_i>>
                  ELSE /\ pc' = wait_for_condition_with_sleep(TRUE, pc, "steps")
                       /\ steps' = StepList(<<"_ensure_available_balance">>)
                       /\ step_i' = 1
    /\ UNCHANGED <<nonReqVars, params, sync_mech_requests,
                   mech_requests, pending_responses, multisend_batches,
                   v1_hex_truncated, request_data, wallet_balance,
                   token_balance, mech_payment_type,
                   nvm_balance, subscription_balance, balance_tracker,
                   multisend_data, safe_tx_hash, payload, shortage, last_check, popped, reentries>>

\* set_total_nvm_balance followed by the comparison of _prepare_safe_tx
\* (request.py:849-853): ok says whether the four balance-tracker and
\* subscription calls have all answered; nvm and sub are the balances read.
\* A variant of ShouldBuySubscription that also buys when the balance
\* equals the rate.
ShouldBuySubscription_at_most(total, rate) == total <= rate

ShouldBuySubscription(total, rate) == total < rate

set_total_nvm_balance ==
    /\ pc = "set_total_nvm_balance"
    /\ \E ok \in BOOLEAN, nvm \in 0..MaxBalance, sub \in 0..MaxBalance :
          /\ Waited(ok)
          /\ ~ok => (nvm = 0 /\ sub = 0)
          /\ IF ~ok
             THEN /\ pc' = wait_for_condition_with_sleep(FALSE, pc, pc)
                  /\ UNCHANGED <<nvm_balance, subscription_balance, steps, step_i, payload>>
             ELSE /\ nvm_balance' = nvm
                  /\ subscription_balance' = sub
                  /\ IF ShouldBuySubscription(nvm + sub, mech_max_delivery_rate)
                     THEN /\ payload' = MechRequestPayload("buy_subscription", NoTx, None, <<>>, <<>>)
                          /\ pc' = "done"
                          /\ UNCHANGED <<steps, step_i>>
                     ELSE /\ payload' = payload
                          /\ pc' = "steps"
                          /\ steps' = StepList(<<>>)
                          /\ step_i' = 1
    /\ UNCHANGED <<nonReqVars, params, sync_mech_requests,
                   mech_requests, pending_responses, multisend_batches,
                   v1_hex_truncated, request_data, price, wallet_balance,
                   token_balance, mech_payment_type, mech_max_delivery_rate,
                   balance_tracker, multisend_data, safe_tx_hash, shortage,
                   last_check, popped, reentries>>

\* The comparisons of _ensure_available_balance (request.py:502-519) for the
\* price p and the balances w (native) and t (token or wrapped native).
BalanceCheck(p, w, t) ==
    IF using_native /\ p <= w THEN "native"
    ELSE IF using_native /\ p <= w + t THEN "unwrap"
    ELSE IF p = None THEN "TypeError"
    ELSE IF p <= t THEN "token"
    ELSE "short"

\* A variant of Shortage that forgets the wrapped native tokens.
Shortage_ignoring_wrapped(p, w, t) == p - w

Shortage(p, w, t) == p - w - t

\* The balances a call of _get_token_balance can answer: the wrapped native
\* token cannot be read when its address is not configured.
TokenAnswers ==
    IF using_token \/ params.wrapped_configured
    THEN {None} \cup 0..MaxBalance
    ELSE {None, 0}

\* _ensure_available_balance, one evaluation: update_safe_balances (which
\* fails when a balance cannot be read) and the balance check.
_ensure_available_balance ==
    /\ CurrentStep = "_ensure_available_balance"
    /\ \E w \in {None} \cup 0..MaxBalance, t \in TokenAnswers :
       LET balances_ok == (using_native => w # None) /\ t # None
           wallet == IF using_native /\ w # None THEN w ELSE wallet_balance
           token == IF balances_ok THEN t ELSE token_balance
           p == IF using_native THEN price ELSE mech_max_delivery_rate
           check == IF balances_ok THEN BalanceCheck(p, wallet, token) ELSE "no_balances"
           satisfied == check \in {"native", "token"}
       IN  /\ ~using_native => w = None
           /\ (using_native /\ w = None) => t = None
           /\ wallet_balance' = wallet
           /\ token_balance' = token
           /\ shortage' = IF check = "short" THEN Shortage(p, wallet, token) ELSE shortage
           /\ last_check' = check
           /\ CASE check = "TypeError" ->
                     /\ pc' = "crashed"
                     /\ UNCHANGED <<step_i, attempts>>
                [] check = "unwrap" ->
                     /\ pc' = "_build_unwrap_tokens_tx"
                     /\ attempts' = 0
                     /\ UNCHANGED step_i
                [] OTHER ->
                     /\ Waited(satisfied)
                     /\ pc' = pc
                     /\ step_i' = wait_for_condition_with_sleep(satisfied, step_i, step_i + 1)
    /\ UNCHANGED <<nonReqVars, params, sync_mech_requests, steps,
                   mech_requests, pending_responses, multisend_batches,
                   v1_hex_truncated, request_data, price,
                   mech_payment_type, mech_max_delivery_rate,
                   nvm_balance, subscription_balance, balance_tracker,
                   multisend_data, safe_tx_hash, payload, popped, reentries>>

\* _build_unwrap_tokens_tx, waited for inside _ensure_available_balance,
\* which then returns True.
\* A variant of UnwrapAmount that unwraps the whole price.
UnwrapAmount_whole_price == price

UnwrapAmount == price - wallet_balance

_build_unwrap_tokens_tx ==
    /\ pc = "_build_unwrap_tokens_tx"
    /\ \E ok \in BOOLEAN :
       LET satisfied == ~params.wrapped_configured \/ ok
       IN  /\ Waited(satisfied)
           /\ ~params.wrapped_configured => ok
           /\ multisend_batches' =
                 IF params.wrapped_configured /\ ok
                 THEN Append(multisend_batches,
                             MultisendBatch("wrapped_native_token", "withdraw", UnwrapAmount, 0))
                 ELSE multisend_batches
           /\ pc' = wait_for_condition_with_sleep(satisfied, pc, "steps")
           /\ step_i' = IF satisfied THEN step_i + 1 ELSE step_i
    /\ UNCHANGED <<nonReqVars, params, sync_mech_requests, steps,
                   mech_requests, pending_responses,
                   v1_hex_truncated, request_data, price, wallet_balance,
                   token_balance, mech_payment_type, mech_max_delivery_rate,
                   nvm_balance, subscription_balance, balance_tracker,
                   multisend_data, safe_tx_hash, payload, shortage, last_check, popped, reentries>>

\* _send_metadata_to_ipfs: pops a request, uploads its metadata and, when the
\* upload succeeded, records the pending response.  uploaded says whether
\* send_to_ipfs returned a hash.  list.pop() raises on an empty list.
Last(seq) == seq[Len(seq)]
Front(seq) == SubSeq(seq, 1, Len(seq) - 1)

\* The content identifier of the uploaded metadata of a request, truncated.
Cid(nonce) == nonce

MechInteractionResponse(nonce, data) == [nonce |-> nonce, data |-> data]

PendingResponsesAfterUpload(uploaded, nonce) ==
    IF uploaded
    THEN Append(pending_responses, MechInteractionResponse(nonce, Cid(nonce)))
    ELSE pending_responses

_send_metadata_to_ipfs ==
    /\ CurrentStep = "_send_metadata_to_ipfs"
    /\ IF mech_requests = <<>>
       THEN /\ pc' = "crashed"
            /\ UNCHANGED <<mech_requests, popped, v1_hex_truncated, pending_responses,
                           step_i, attempts>>
       ELSE \E uploaded \in BOOLEAN :
            LET metadata == Last(mech_requests)
            IN  /\ Waited(uploaded)
                /\ mech_requests' = Front(mech_requests)
                /\ popped' = Append(popped, metadata)
                /\ v1_hex_truncated' = IF uploaded THEN Cid(metadata) ELSE v1_hex_truncated
                /\ pending_responses' = PendingResponsesAfterUpload(uploaded, metadata)
                /\ step_i' = wait_for_condition_with_sleep(uploaded, step_i, step_i + 1)
                /\ pc' = pc
    /\ UNCHANGED <<nonReqVars, params, sync_mech_requests, steps, multisend_batches,
                   request_data, price, wallet_balance,
                   token_balance, mech_payment_type, mech_max_delivery_rate,
                   nvm_balance, subscription_balance, balance_tracker,
                   multisend_data, safe_tx_hash, payload, shortage, last_check, reentries>>

\* _build_request_data: the encoder chosen by the configuration and the
\* agreed marketplace version.
\* A variant of Encoder that ignores the agreed version of the marketplace.
Encoder_ignoring_version ==
    IF params.use_mech_marketplace THEN "marketplace_v1" ELSE "legacy_mech"

Encoder ==
    IF params.use_mech_marketplace
    THEN (IF should_use_marketplace_v2 THEN "marketplace_v2" ELSE "marketplace_v1")
    ELSE "legacy_mech"

\* _build_token_approval (token payment of the v2 flow): tracker_ok and
\* approve_ok are the answers of get_balance_tracker and build_approval_tx.
TokenApprovalOk(tracker_ok, approve_ok) ==
    (balance_tracker \/ tracker_ok) /\ approve_ok

ApprovalLeg == MultisendBatch("price_token", "approve", mech_max_delivery_rate, 0)

RequestLeg(data) == MultisendBatch("priority_mech", "request", data, price)

_build_request_data ==
    /\ CurrentStep = "_build_request_data"
    /\ \E tracker_ok \in BOOLEAN, approve_ok \in BOOLEAN, data_ok \in BOOLEAN :
       LET approving == Encoder = "marketplace_v2" /\ using_token
           approved == approving /\ TokenApprovalOk(tracker_ok, approve_ok)
           status == (approving => approved) /\ data_ok
           data == [encoder |-> Encoder, cid |-> v1_hex_truncated]
           with_approval == IF approved
                            THEN Append(multisend_batches, ApprovalLeg)
                            ELSE multisend_batches
       IN  \* answers of calls that are not made are not enumerated
           /\ (~approving \/ balance_tracker) => tracker_ok
           /\ (~approving \/ ~(balance_tracker \/ tracker_ok)) => approve_ok
           /\ (approving /\ ~approved) => data_ok
           /\ Waited(status)
           /\ balance_tracker' = (balance_tracker \/ (approving /\ tracker_ok))
           /\ request_data' = IF status THEN data ELSE request_data
           /\ multisend_batches' =
                 IF status THEN Append(with_approval, RequestLeg(data)) ELSE with_approval
           /\ step_i' = wait_for_condition_with_sleep(status, step_i, step_i + 1)
           /\ pc' = pc
    /\ UNCHANGED <<nonReqVars, params, sync_mech_requests, steps,
                   mech_requests, pending_responses,
                   v1_hex_truncated, price, wallet_balance,
                   token_balance, mech_payment_type, mech_max_delivery_rate,
                   nvm_balance, subscription_balance,
                   multisend_data, safe_tx_hash, payload, shortage, last_check, popped, reentries>>

\* _build_multisend_data: encoded says whether the multisend contract
\* returned the encoded batch.
\* A variant of MultisendDataAfter that never stores the encoded batch.
MultisendDataAfter_not_stored(encoded) == multisend_data

MultisendDataAfter(encoded) ==
    IF encoded THEN multisend_batches ELSE multisend_data

_build_multisend_data ==
    /\ CurrentStep = "_build_multisend_data"
    /\ \E encoded \in BOOLEAN :
          /\ Waited(encoded)
          /\ multisend_data' = MultisendDataAfter(encoded)
          /\ step_i' = wait_for_condition_with_sleep(encoded, step_i, step_i + 1)
          /\ pc' = pc
    /\ UNCHANGED <<nonReqVars, params, sync_mech_requests, steps,
                   mech_requests, pending_responses, multisend_batches,
                   v1_hex_truncated, request_data, price, wallet_balance,
                   token_balance, mech_payment_type, mech_max_delivery_rate,
                   nvm_balance, subscription_balance, balance_tracker,
                   safe_tx_hash, payload, shortage, last_check, popped, reentries>>

\* _build_multisend_safe_tx_hash: hashed says whether the safe contract
\* returned a well-formed hash, which is the hash of (value, data).  It is
\* the last step: when it succeeds _prepare_safe_tx returns False and
\* async_act emits the payload of the prepared transaction.
SafeTxHashAfter(hashed) ==
    IF hashed
    THEN [set |-> TRUE, value |-> txs_value, data |-> multisend_data]
    ELSE safe_tx_hash

_build_multisend_safe_tx_hash ==
    /\ CurrentStep = "_build_multisend_safe_tx_hash"
    /\ \E hashed \in BOOLEAN :
          /\ Waited(hashed)
          /\ safe_tx_hash' = SafeTxHashAfter(hashed)
          /\ step_i' = wait_for_condition_with_sleep(hashed, step_i, step_i + 1)
          /\ IF hashed /\ step_i = Len(steps)
             THEN /\ pc' = "done"
                  /\ payload' = MechRequestPayload(
                        "tx",
                        [safe_tx_hash |-> safe_tx_hash', value |-> txs_value,
                         data |-> multisend_data],
                        price, mech_requests, pending_responses)
             ELSE /\ pc' = pc
                  /\ payload' = payload
    /\ UNCHANGED <<nonReqVars, params, sync_mech_requests, steps,
                   mech_requests, pending_responses, multisend_batches,
                   v1_hex_truncated, request_data, price, wallet_balance,
                   token_balance, mech_payment_type, mech_max_delivery_rate,
                   nvm_balance, subscription_balance, balance_tracker,
                   multisend_data, shortage, last_check, popped, reentries>>

\* A variant of RoundTimeout in which setup() runs again on the behaviour
\* instance of the abandoned run instead of on a new one.
RoundTimeout_same_instance ==
    /\ pc \notin {"setup", "crashed"}
    /\ reentries < MaxReentries
    /\ reentries' = reentries + 1
    /\ pc' = "setup"
    /\ steps' = <<>>
    /\ step_i' = 1
    /\ attempts' = 0
    /\ payload' = NoPayload
    /\ UNCHANGED <<nonReqVars, params, sync_mech_requests, mech_requests,
                   pending_responses, multisend_batches, v1_hex_truncated,
                   request_data, price, wallet_balance, token_balance,
                   mech_payment_type, mech_max_delivery_rate, nvm_balance,
                   subscription_balance, balance_tracker, multisend_data,
                   safe_tx_hash, shortage, last_check, popped>>

\* ROUND_TIMEOUT while the request round is running: the table leads back to
\* MechRequestRound, and the round's behaviour is instantiated anew
\* (MechRequestBehaviour.__init__) and starts from setup().
RoundTimeout ==
    /\ pc \notin {"setup", "crashed"}
    /\ reentries < MaxReentries
    /\ "round_timeout" \in DOMAIN transition_function[current_round]
    /\ NextRound(current_round, "round_timeout") = "MechRequestRound"
    /\ reentries' = reentries + 1
    /\ pc' = "setup"
    /\ steps' = <<>>
    /\ step_i' = 1
    /\ attempts' = 0
    /\ mech_requests' = BehaviourInitAttrs.mech_requests
    /\ pending_responses' = BehaviourInitAttrs.pending_responses
    /\ multisend_batches' = BehaviourInitAttrs.multisend_batches
    /\ v1_hex_truncated' = BehaviourInitAttrs.v1_hex_truncated
    /\ request_data' = BehaviourInitAttrs.request_data
    /\ price' = BehaviourInitAttrs.price
    /\ wallet_balance' = BehaviourInitAttrs.wallet_balance
    /\ token_balance' = BehaviourInitAttrs.token_balance
    /\ mech_payment_type' = BehaviourInitAttrs.mech_payment_type
    /\ mech_max_delivery_rate' = BehaviourInitAttrs.mech_max_delivery_rate
    /\ nvm_balance' = BehaviourInitAttrs.nvm_balance
    /\ subscription_balance' = BehaviourInitAttrs.subscription_balance
    /\ balance_tracker' = BehaviourInitAttrs.balance_tracker
    /\ multisend_data' = BehaviourInitAttrs.multisend_data
    /\ safe_tx_hash' = BehaviourInitAttrs.safe_tx_hash
    /\ payload' = NoPayload
    /\ shortage' = 0
    /\ last_check' = "none"
    /\ popped' = <<>>
    /\ UNCHANGED <<nonReqVars, params, sync_mech_requests>>

Next ==
    \/ setup
    \/ async_act
    \/ _fetch_and_validate_payment_type
    \/ _get_price
    \/ set_total_nvm_balance
    \/ _ensure_available_balance
    \/ _build_unwrap_tokens_tx
    \/ _send_metadata_to_ipfs
    \/ _build_request_data
    \/ _build_multisend_data
    \/ _build_multisend_safe_tx_hash
    \/ RoundTimeout

(***************************************************************************)
(* MechPurchaseSubscriptionBehaviour: the attributes of the behaviour, the *)
(* fetch of the registered values and of the descriptor of the             *)
(* subscription, and the stages that compute the condition hashes and ids. *)
(* No code of the behaviour calls the stages (async_act is not written     *)
(* yet), so each stage is applied to the attributes as they are, and the   *)
(* attributes that only get_agreement_id would set are inputs.  The        *)
(* contract calls of one application are answered in order: the call       *)
(* number fail_at fails, the others succeed.                               *)
(***************************************************************************)
\* The attributes set by MechPurchaseSubscriptionBehaviour.__init__ and by
\* the constructor of its base class.
PurchaseInitAttrs ==
    [agreement_id |-> "None", agreement_id_seed |-> "None", ddo_values |-> "None",
     service |-> "None", create_agreement_tx_data |-> "None",
     subscription_token_approval_tx_data |-> "None",
     create_fulfill_tx_data |-> "None", multisend_batches |-> <<>>,
     safe_tx_hash |-> "", payload |-> "None",
     fail_at |-> 0, fetched |-> "None", last |-> "None", res |-> "None",
     calls |-> <<>>]

PurIdle == purchase = PurchaseInitAttrs

Ret(res, calls) == [res |-> res, calls |-> calls]

\* One contract call: its answer and the calls issued so far.
ContractCall(name, calls) ==
    [ok |-> Len(calls) + 1 # purchase.fail_at, calls |-> Append(calls, name)]

\* The property receivers: None without a descriptor, otherwise the value
\* found under its key attributes, which a descriptor may lack.
receivers ==
    CASE purchase.service \in {"None", "empty"} -> "None"
      [] purchase.service = "with_attributes" -> "value"
      [] OTHER -> "KeyError"

\* The property from_address: None without registered values, otherwise
\* ddo_values["owner"] on the values that get_ddo returns, which are the
\* positional results of getDIDRegister.
from_address ==
    IF purchase.ddo_values = "None" THEN "None" ELSE "TypeError"

_get_lock_hash(calls) ==
    IF receivers # "value" THEN Ret(receivers, calls)
    ELSE LET c == ContractCall("lock.get_hash_values", calls)
         IN  Ret(IF c.ok THEN "value" ELSE "None", c.calls)

_get_lock_id(calls) ==
    LET lock_hash == _get_lock_hash(calls)
        c == ContractCall("lock.get_generate_id", lock_hash.calls)
    IN  IF lock_hash.res # "value" THEN lock_hash
        ELSE IF purchase.agreement_id = "None" THEN Ret("None", lock_hash.calls)
        ELSE Ret(IF c.ok THEN "value" ELSE "None", c.calls)

_get_transfer_nft_hash(calls) ==
    LET lock_id == _get_lock_id(calls)
        c == ContractCall("transfer.get_hash_values", lock_id.calls)
    IN  IF from_address # "value" THEN Ret(from_address, calls)
        ELSE IF lock_id.res # "value" THEN lock_id
        ELSE Ret(IF c.ok THEN "value" ELSE "None", c.calls)

_get_transfer_id(calls) ==
    LET transfer_hash == _get_transfer_nft_hash(calls)
        c == ContractCall("transfer.get_generate_id", transfer_hash.calls)
    IN  IF transfer_hash.res # "value" THEN transfer_hash
        ELSE IF purchase.agreement_id = "None" THEN Ret("None", transfer_hash.calls)
        ELSE Ret(IF c.ok THEN "value" ELSE "None", c.calls)

_get_escrow_payment_hash(calls) ==
    LET lock_id == _get_lock_id(calls)
        transfer_id == _get_transfer_id(lock_id.calls)
        c == ContractCall("escrow.get_hash_values", transfer_id.calls)
    IN  IF receivers # "value" THEN Ret(receivers, calls)
        ELSE IF lock_id.res # "value" THEN lock_id
        ELSE IF transfer_id.res # "value" THEN transfer_id
        ELSE Ret(IF c.ok THEN "value" ELSE "None", c.calls)

\* _build_create_agreement_tx_data: with the three hashes it returns the
\* generator of the call of build_create_agreement_tx without running it.
_build_create_agreement_tx_data(calls) ==
    LET lock_hash == _get_lock_hash(calls)
        transfer_hash == _get_transfer_nft_hash(lock_hash.calls)
        escrow_hash == _get_escrow_payment_hash(transfer_hash.calls)
    IN  IF purchase.agreement_id_seed = "None" THEN Ret("None", calls)
        ELSE IF lock_hash.res # "value" THEN lock_hash
        ELSE IF transfer_hash.res # "value" THEN transfer_hash
        ELSE IF escrow_hash.res # "value" THEN escrow_hash
        ELSE Ret("generator", escrow_hash.calls)

\* _build_create_fulfill_tx_data: with the two ids it returns the generator
\* of the call of build_create_fulfill_tx without running it.
_build_create_fulfill_tx_data(calls) ==
    LET lock_id == _get_lock_id(calls)
        transfer_id == _get_transfer_id(lock_id.calls)
    IN  IF from_address # "value" THEN Ret(from_address, calls)
        ELSE IF lock_id.res # "value" THEN lock_id
        ELSE IF receivers # "value" THEN Ret(receivers, lock_id.calls)
        ELSE IF transfer_id.res # "value" THEN transfer_id
        ELSE Ret("generator", transfer_id.calls)

Stages ==
    {"_get_lock_hash", "_get_lock_id", "_get_transfer_nft_hash", "_get_transfer_id",
     "_get_escrow_payment_hash", "_build_create_agreement_tx_data",
     "_build_create_fulfill_tx_data"}

StageResult(stage) ==
    CASE stage = "_get_lock_hash" -> _get_lock_hash(<<>>)
      [] stage = "_get_lock_id" -> _get_lock_id(<<>>)
      [] stage = "_get_transfer_nft_hash" -> _get_transfer_nft_hash(<<>>)
      [] stage = "_get_transfer_id" -> _get_transfer_id(<<>>)
      [] stage = "_get_escrow_payment_hash" -> _get_escrow_payment_hash(<<>>)
      [] stage = "_build_create_agreement_tx_data" -> _build_create_agreement_tx_data(<<>>)
      [] OTHER -> _build_create_fulfill_tx_data(<<>>)


\* The request round of one agent: the behaviour of MechRequestRound, from
\* its instantiation to its payload, re-entered on ROUND_TIMEOUT.
Init ==
    /\ ReqInit
    /\ FsmInit({"MechRequestRound"}, {params.is_marketplace_v2})
    /\ InfoIdle
    /\ RankIdle
    /\ PurIdle
    /\ BuiltIdle

Spec == Init /\ [][Next]_vars

(***************************************************************************)
(* Properties of the request behaviour, checked under Spec.                *)
(***************************************************************************)
Range(seq) == {seq[i] : i \in DOMAIN seq}

Nonces(responses) == {responses[i].nonce : i \in DOMAIN responses}

UnwrapLegs == {i \in DOMAIN multisend_batches : multisend_batches[i].data.fn = "withdraw"}

BuildSteps == {"_build_multisend_data", "_build_multisend_safe_tx_hash"}

\* C1: once setup() has taken the agreed requests, each of them is either
\* still queued in _mech_requests or has its placeholder in
\* _pending_responses: no request is silently dropped by
\* _send_metadata_to_ipfs.
C1_NoRequestDropped ==
    pc \notin {"setup", "crashed"} =>
        \A i \in DOMAIN sync_mech_requests :
            \/ sync_mech_requests[i] \in Range(mech_requests)
            \/ sync_mech_requests[i] \in Nonces(pending_responses)

\* C7: under native payment, once the balance step has succeeded: if the
\* native balance covers the price there is no unwrap leg; if it does not
\* but native plus wrapped does, there is exactly one unwrap leg, of amount
\* price - native, and it is the first leg of the batch, before every
\* request leg.
C7_UnwrapLeg ==
    (using_native /\ pc \in {"steps", "done"} /\ step_i > 1) =>
        /\ last_check \in {"native", "unwrap"}
        /\ last_check = "native" <=> price <= wallet_balance
        /\ last_check = "unwrap" <=>
              (wallet_balance < price /\ price <= wallet_balance + token_balance)
        /\ last_check = "native" => UnwrapLegs = {}
        /\ last_check = "unwrap" =>
              /\ UnwrapLegs = {1}
              /\ multisend_batches[1] =
                    MultisendBatch("wrapped_native_token", "withdraw",
                                   price - wallet_balance, 0)

C7_Witness ==
    /\ using_native
    /\ pc = "done"
    /\ payload.kind = "tx"
    /\ wallet_balance = 1
    /\ price = 2
    /\ Len(multisend_batches) >= 2
    /\ multisend_batches[1].data = [fn |-> "withdraw", arg |-> 1]
    /\ multisend_batches[2].data.fn = "request"

\* C8: under native payment the balance check fails exactly when the price
\* exceeds native plus wrapped; the failed check logs the shortfall
\* price - native - wrapped, appends no leg and emits nothing, and the
\* behaviour stays at the balance step, which is evaluated again; the
\* behaviour is past that step as soon as an evaluation finds enough balance.
C8_ShortfallWaits ==
    using_native =>
        /\ last_check \in {"native", "unwrap", "short"} =>
              (last_check = "short" <=> price > wallet_balance + token_balance)
        /\ last_check = "short" =>
              /\ CurrentStep = "_ensure_available_balance"
              /\ shortage = price - wallet_balance - token_balance
              /\ multisend_batches = <<>>
              /\ payload = NoPayload
        /\ CurrentStep = "_ensure_available_balance" =>
              last_check \in {"none", "short", "no_balances"}

C8_Witness ==
    /\ using_native
    /\ last_check = "short"
    /\ token_balance = 1
    /\ shortage = 1
    /\ attempts >= 1

C18_BuyIffBelowRate ==
    /\ payload.kind = "buy_subscription" =>
          /\ using_nevermined
          /\ total_nvm_balance < mech_max_delivery_rate
          /\ payload = MechRequestPayload("buy_subscription", NoTx, None, <<>>, <<>>)
          /\ popped = <<>>
          /\ mech_requests = sync_mech_requests
          /\ pending_responses = <<>>
          /\ multisend_batches = <<>>
    /\ (using_nevermined /\ nvm_balance # None /\ subscription_balance # None) =>
          IF total_nvm_balance < mech_max_delivery_rate
          THEN payload.kind = "buy_subscription" /\ pc = "done"
          ELSE /\ payload.kind # "buy_subscription"
               /\ last_check = "none"
               /\ "_ensure_available_balance" \notin Range(steps)
               /\ pc \in {"steps", "done", "crashed"}

C18_Witness ==
    /\ payload.kind = "buy_subscription"
    /\ nvm_balance = 1
    /\ subscription_balance = 0
    /\ mech_max_delivery_rate = 2
    /\ Len(sync_mech_requests) = MaxRequests

\* The request legs of a batch.
RequestLegs(batches) == {i \in DOMAIN batches : batches[i].data.fn = "request"}

OrderedSteps ==
    (IF using_nevermined THEN <<>> ELSE <<"_ensure_available_balance">>)
    \o Repeat(<<"_send_metadata_to_ipfs", "_build_request_data">>,
              Min(params.multisend_batch_size, Len(sync_mech_requests)))
    \o <<"_build_multisend_data", "_build_multisend_safe_tx_hash">>

\* The steps of the list that have returned success in this run.
StepsDone == {steps[k] : k \in 1..Min(step_i - 1, Len(steps))}

CountDone(step) == Cardinality({k \in 1..Min(step_i - 1, Len(steps)) : steps[k] = step})

AfterPaymentType ==
    pc \in {"_get_price", "set_total_nvm_balance", "steps", "_build_unwrap_tokens_tx"}
    \/ payload.kind \in {"tx", "buy_subscription"}

AfterPrice ==
    pc \in {"set_total_nvm_balance", "steps", "_build_unwrap_tokens_tx"}
    \/ payload.kind \in {"tx", "buy_subscription"}

\* C20: one run of _prepare_safe_tx executes its steps in the order payment
\* type, price, balance check, upload and request build for each request
\* of the batch, multisend data, safe tx hash; a step starts only when all
\* the steps before it have returned success; the payload of a prepared
\* transaction is emitted only once the safe tx hash of the complete batch
\* has been obtained.
C20_StepsInOrder ==
    /\ [](/\ pc \in {"steps", "_build_unwrap_tokens_tx"} => steps = OrderedSteps
          /\ AfterPaymentType =>
                (should_use_marketplace_v2 => mech_payment_type \in PaymentTypes)
          /\ AfterPrice =>
                (should_use_marketplace_v2 => mech_max_delivery_rate # None)
          /\ pc \in {"steps", "done"} =>
                /\ "_ensure_available_balance" \in StepsDone =>
                      last_check \in {"native", "token", "unwrap"}
                /\ CountDone("_send_metadata_to_ipfs") = Len(pending_responses)
                /\ CountDone("_build_request_data") =
                      Cardinality(RequestLegs(multisend_batches))
                /\ "_build_multisend_data" \in StepsDone =>
                      multisend_data = multisend_batches
                /\ "_build_multisend_safe_tx_hash" \in StepsDone =>
                      (safe_tx_hash.set /\ safe_tx_hash.data = multisend_batches)
          /\ payload.kind = "tx" =>
                /\ step_i = Len(steps) + 1
                /\ steps = OrderedSteps
                /\ payload.tx_hex.safe_tx_hash = safe_tx_hash
                /\ payload.tx_hex.data = multisend_batches
                /\ Cardinality(RequestLegs(multisend_batches)) =
                      Min(params.multisend_batch_size, Len(sync_mech_requests)))
    /\ [][(reentries' = reentries /\ pc' # "crashed") =>
            /\ pc = "_fetch_and_validate_payment_type" =>
                  pc' \in {pc, "_get_price"}
            /\ pc = "_get_price" => pc' \in {pc, "set_total_nvm_balance", "steps"}
            /\ pc = "set_total_nvm_balance" => pc' \in {pc, "steps", "done"}
            /\ pc = "steps" =>
                  /\ steps' = steps
                  /\ step_i' \in {step_i, step_i + 1}
                  /\ pc' = "done" => (step_i = Len(steps) /\ step_i' = step_i + 1)]_vars

C20_Witness ==
    /\ payload.kind = "tx"
    /\ params.multisend_batch_size = 2
    /\ Len(payload.mech_responses) = 2
    /\ last_check = "unwrap"
    /\ Len(steps) = 7

\* The values of the legs up to position i, added from the first leg on.
RECURSIVE ValueUpTo(_)
ValueUpTo(i) ==
    IF i = 0 THEN 0 ELSE ValueUpTo(i - 1) + multisend_batches[i].value

\* C30: the value for which the safe tx hash was requested and the value in
\* tx_hex are the sum of the values of the legs that are in the batch.
C30_ValueIsSumOfLegs ==
    /\ safe_tx_hash.set => safe_tx_hash.value = ValueUpTo(Len(multisend_batches))
    /\ tx_hex.value = ValueUpTo(Len(multisend_batches))
    /\ payload.kind = "tx" => payload.tx_hex.value = ValueUpTo(Len(multisend_batches))

\* A payload was emitted for a batch of an unwrap leg without value and two
\* request legs that carry the price.
C30_Witness ==
    /\ payload.kind = "tx"
    /\ Len(multisend_batches) = 3
    /\ multisend_batches[1].value = 0
    /\ multisend_batches[2].value > 0
    /\ payload.tx_hex.value = multisend_batches[2].value + multisend_batches[3].value

(***************************************************************************)
(* The specifications of the other components.                             *)
(***************************************************************************)
\* The application, from each of its initial rounds.
InitFsm ==
    /\ FsmInit(initial_states, DbValues)
    /\ ReqIdle
    /\ InfoIdle
    /\ RankIdle
    /\ PurIdle
    /\ BuiltIdle

NextFsm ==
    \/ process_payload
    \/ end_block
    \/ FsmStep

SpecFsm == InitFsm /\ [][NextFsm]_vars

(***************************************************************************)
(* MechVersionDetectionBehaviour with its round: every agent but the first *)
(* runs the behaviour, the first one may send any vote.                    *)
(***************************************************************************)
\* SynchronizedData.versioning_check_performed.
versioning_check_performed == is_marketplace_v2 \notin {"unset", "null"}

\* A variant of the detection that asks the marketplace every time.
detect_marketplace_compatibility_always_calling(is_new_mm) ==
    IF ~params.use_mech_marketplace THEN [called |-> FALSE, is_v2 |-> "null"]
    ELSE [called |-> TRUE, is_v2 |-> IF is_new_mm THEN "true" ELSE "false"]

\* detect_marketplace_compatibility: whether get_max_fee_factor was called,
\* and the value returned.  is_new_mm is the status of the call.
detect_marketplace_compatibility(is_new_mm) ==
    IF ~params.use_mech_marketplace THEN [called |-> FALSE, is_v2 |-> "null"]
    ELSE IF versioning_check_performed
         THEN [called |-> FALSE, is_v2 |-> is_marketplace_v2]
    ELSE [called |-> TRUE, is_v2 |-> IF is_new_mm THEN "true" ELSE "false"]

\* async_act of the behaviour of one agent: the detection and the vote.
MechVersion_async_act ==
    /\ current_round = "MechVersionDetectionRound"
    /\ Len(event_history) < MaxEvents
    /\ \E a \in 2..NumAgents, is_new_mm \in BOOLEAN :
          LET detected == detect_marketplace_compatibility(is_new_mm)
          IN  /\ participant_to_votes[a] = Absent
              /\ ~detected.called => is_new_mm
              /\ participant_to_votes' = [participant_to_votes EXCEPT ![a] = detected.is_v2]
              /\ built' = [op |-> "detect_marketplace_compatibility", agent |-> a,
                           stored |-> is_marketplace_v2, called |-> detected.called,
                           is_v2 |-> detected.is_v2]
    /\ UNCHANGED <<current_round, round_history, event_history, is_marketplace_v2,
                   purVars, reqVars, infoVars, rankVars>>

\* The payload of the agent that does not run the behaviour.
ArbitraryPayload ==
    /\ current_round = "MechVersionDetectionRound"
    /\ Len(event_history) < MaxEvents
    /\ participant_to_votes[1] = Absent
    /\ \E v \in VoteValues :
          participant_to_votes' = [participant_to_votes EXCEPT ![1] = v]
    /\ UNCHANGED <<current_round, round_history, event_history, is_marketplace_v2,
                   purVars, builtVars, reqVars, infoVars, rankVars>>

\* The application enters its initial round again after a final round, with
\* the data of the period as the rounds left it.
EnterInitialRound ==
    /\ current_round \in final_states
    /\ Len(event_history) < MaxEvents
    /\ current_round' = "MechVersionDetectionRound"
    /\ round_history' = Append(round_history, current_round)
    /\ event_history' = Append(event_history, "initial_round_cls")
    /\ participant_to_votes' = NoVotes
    /\ UNCHANGED <<is_marketplace_v2, purVars, builtVars, reqVars, infoVars, rankVars>>

\* The agents share one configuration, so a stored true or false was agreed
\* with the marketplace enabled, and a stored null with it disabled.
InitVersion ==
    /\ FsmInit({"MechVersionDetectionRound"}, DbValues)
    /\ params \in {p \in ParamsSet :
                      /\ p.multisend_batch_size = 1 /\ p.wrapped_configured
                      /\ p.is_marketplace_v2 = "true"}
    /\ is_marketplace_v2 \in {"true", "false"} => params.use_mech_marketplace
    /\ is_marketplace_v2 = "null" => ~params.use_mech_marketplace
    /\ sync_mech_requests = <<>>
    /\ ReqFresh
    /\ InfoIdle
    /\ RankIdle
    /\ PurIdle
    /\ BuiltIdle

NextVersion ==
    \/ MechVersion_async_act
    \/ ArbitraryPayload
    \/ end_block
    \/ FsmStep
    \/ EnterInitialRound

SpecVersion == InitVersion /\ [][NextVersion]_vars

\* The information behaviour of one agent, from its instantiation to its
\* payload.
InitInfo ==
    /\ InfoInit
    /\ ReqIdle
    /\ FsmInit({"MechInformationRound"}, {"true"})
    /\ RankIdle
    /\ PurIdle
    /\ BuiltIdle

NextInfo ==
    \/ fetch_mechs_info
    \/ fetch_mechs_info_batch
    \/ populate_tools

SpecInfo == InitInfo /\ [][NextInfo]_vars

\* The ranking of the mechs' information of SynchronizedData.
InitRank ==
    /\ RankInit
    /\ ReqIdle
    /\ FsmInit({"MechRequestRound"}, {"true"})
    /\ InfoIdle
    /\ PurIdle
    /\ BuiltIdle

NextRank ==
    \/ Compare
    \/ GetPriorityMech
    \/ GetRankedMechs

SpecRank == InitRank /\ [][NextRank]_vars

\* The ranking of lists of busy mechs that were delivered to at the same
\* time and differ in their karma and in their received requests.
InitSort ==
    /\ \E karma \in [1..SortLen -> 0..MaxKarma],
          received \in [1..SortLen -> ReceivedRequests \ {0}] :
          mechs_info = [i \in 1..SortLen |->
                           MechInfo(i, karma[i], received[i], Now - HALF_LIFE_SECONDS, 1)]
    /\ mechs_info_reordered = mechs_info
    /\ RankFresh
    /\ ReqIdle
    /\ FsmInit({"MechRequestRound"}, {"true"})
    /\ InfoIdle
    /\ PurIdle
    /\ BuiltIdle

NextSort ==
    \/ Compare
    \/ GetRankedMechs

SpecSort == InitSort /\ [][NextSort]_vars

\* The construction of one MechInfo, the liveness and the delivered ratio
\* read from it, and the filter of one response of the subgraph.
MechInfo_init ==
    /\ built.op = "None"
    /\ \E kwargs \in Kwargs :
          built' = [op |-> "MechInfo", kwargs |-> kwargs, instance |-> __post_init__(kwargs)]
    /\ UNCHANGED <<reqVars, fsmVars, infoVars, rankVars, purVars>>

ReadLiveness ==
    /\ built.op = "MechInfo"
    /\ built' = [op |-> "liveness", instance |-> built.instance,
                 liveness |-> liveness(built.instance)]
    /\ UNCHANGED <<reqVars, fsmVars, infoVars, rankVars, purVars>>

\* The ticks hold the ratios of the instances that deliver at most one
\* request more than they receive.
ReadDeliveredRatio ==
    /\ built.op = "MechInfo"
    /\ built.instance.self_delivered <= built.instance.received_requests + 1
    /\ built' = [op |-> "delivered_ratio_smoothed", instance |-> built.instance,
                 delivered_ratio_smoothed |-> delivered_ratio_smoothed(built.instance)]
    /\ UNCHANGED <<reqVars, fsmVars, infoVars, rankVars, purVars>>

FilterInfo ==
    /\ built.op = "None"
    /\ \E n \in 0..MaxMechs, delivery_rate_cap \in 0..MaxCount :
       \E items \in [1..n -> SubgraphItems] :
          LET unfiltered == [i \in 1..n |-> [items[i] EXCEPT !.id = i]]
              filtered == filter_info(unfiltered, delivery_rate_cap)
          IN  built' = [op |-> "filter_info", unfiltered |-> unfiltered,
                        delivery_rate_cap |-> delivery_rate_cap,
                        filtered |-> filtered,
                        priority_mech |-> priority_mech(filtered)]
    /\ UNCHANGED <<reqVars, fsmVars, infoVars, rankVars, purVars>>

\* The construction of the parameters from the keywords of the configuration.
MechParams_init ==
    /\ built.op = "None"
    /\ \E kwargs \in ConfigKwargs :
          built' = [op |-> "MechParams", kwargs |-> kwargs, params |-> MechParams(kwargs)]
    /\ UNCHANGED <<reqVars, fsmVars, infoVars, rankVars, purVars>>

\* batch = MultisendBatch(to, data, value); self.multisend_batches.append(batch):
\* the constructor raises before the append is reached.  constructed counts
\* the legs in the order of their construction.
AppendLeg ==
    /\ built.op \in {"None", "multisend_batches"}
    /\ built.op = "multisend_batches" =>
          /\ built.raised = "None"
          /\ Len(built.multisend_batches) < MaxBatchSize + 1
    /\ \E to \in LegTargets, data \in LegData, value \in LegValues :
          LET before == IF built.op = "None" THEN <<>> ELSE built.multisend_batches
              raised == MultisendBatch_post_init(to, data, value)
              batch == [to |-> to, data |-> data, value |-> value,
                        constructed |-> Len(before) + 1]
          IN  built' = [op |-> "multisend_batches",
                        before |-> before,
                        arguments |-> [to |-> to, data |-> data, value |-> value],
                        raised |-> raised,
                        multisend_batches |->
                            IF raised = "None" THEN Append(before, batch) ELSE before]
    /\ UNCHANGED <<reqVars, fsmVars, infoVars, rankVars, purVars>>

InitBuilt ==
    /\ BuiltIdle
    /\ ReqIdle
    /\ FsmInit({"MechInformationRound"}, {"true"})
    /\ InfoIdle
    /\ RankIdle
    /\ PurIdle

NextBuilt ==
    \/ MechInfo_init
    \/ ReadLiveness
    \/ ReadDeliveredRatio
    \/ FilterInfo
    \/ MechParams_init
    \/ AppendLeg

SpecBuilt == InitBuilt /\ [][NextBuilt]_vars

\* fetch_mechs_info of a subgraph that holds the mechs 1..total, of which
\* the eligible ones pass the filter: the state before the first query.
FetchMechsInfo ==
    /\ built.op = "None"
    /\ \E total \in 0..MaxSubgraphMechs :
       \E eligible \in SUBSET (1..total) :
          built' = [op |-> "fetch_mechs_info", total |-> total, eligible |-> eligible,
                    mechs_id_gt |-> 0, mechs_info |-> <<>>, returned |-> "running"]
    /\ UNCHANGED <<reqVars, fsmVars, infoVars, rankVars, purVars>>

\* One pass of the loop of fetch_mechs_info: a failed response returns None,
\* an empty batch returns what was collected, any other batch is appended
\* and its last id becomes the lower bound of the next query.
FetchBatch ==
    /\ built.op = "fetch_mechs_info"
    /\ built.returned = "running"
    /\ \E failed \in BOOLEAN :
          LET page == mechs_info_query(QUERY_BATCH_SIZE, built.mechs_id_gt, built.total)
              info_batch == process_response(page, built.eligible)
          IN  built' =
                 IF failed THEN [built EXCEPT !.returned = "None"]
                 ELSE IF Len(info_batch) = 0 THEN [built EXCEPT !.returned = "mechs_info"]
                 ELSE [built EXCEPT !.mechs_info = built.mechs_info \o info_batch,
                                    !.mechs_id_gt = info_batch[Len(info_batch)]]
    /\ UNCHANGED <<reqVars, fsmVars, infoVars, rankVars, purVars>>

NextFetch ==
    \/ FetchMechsInfo
    \/ FetchBatch

SpecFetch == InitBuilt /\ [][NextFetch]_vars

\* The purchase behaviour of one agent: the fetch of the descriptor, one
\* stage, and async_act.  The shapes of the document served by the endpoint: no key at all, the
\* key attributes at the top, or only the keys of a descriptor document.
Documents == {"empty", "with_attributes", "without_attributes"}

FetchOutcomes ==
    {"call_failed", "no_data", "no_endpoint", "http_error", "no_nft_sales", "ok"}

_get_ddo_data_from_endpoint ==
    /\ purchase.last = "None"
    /\ \E outcome \in FetchOutcomes, ddo \in Documents :
          /\ outcome = "ok" => ddo # "empty"
          /\ outcome \notin {"ok", "no_nft_sales"} => ddo = "empty"
          /\ purchase' =
                [purchase EXCEPT
                   !.ddo_values =
                       IF outcome = "call_failed" THEN @
                       ELSE IF outcome = "no_data" THEN "None" ELSE "list",
                   !.service =
                       IF outcome \in {"ok", "no_nft_sales"} THEN ddo ELSE @,
                   !.fetched = IF outcome = "ok" THEN "True" ELSE "False",
                   !.last = "_get_ddo_data_from_endpoint",
                   !.res = IF outcome = "ok" THEN "True" ELSE "False"]
    /\ UNCHANGED <<reqVars, fsmVars, infoVars, rankVars, builtVars>>

\* One stage run on the attributes as they are.
RunStage ==
    /\ purchase.last \in {"None", "_get_ddo_data_from_endpoint"}
    /\ \E stage \in Stages :
          LET r == StageResult(stage)
          IN  purchase' = [purchase EXCEPT !.last = stage, !.res = r.res,
                                           !.calls = r.calls]
    /\ UNCHANGED <<reqVars, fsmVars, infoVars, rankVars, builtVars>>

\* async_act of the purchase behaviour: a body that holds a docstring only.
Purchase_async_act ==
    /\ purchase.last # "async_act"
    /\ purchase' = [purchase EXCEPT !.last = "async_act", !.res = "None"]
    /\ UNCHANGED <<reqVars, fsmVars, infoVars, rankVars, builtVars>>

InitPur ==
    /\ ReqIdle
    /\ FsmInit({"MechPurchaseSubscriptionRound"}, {"true"})
    /\ InfoIdle
    /\ RankIdle
    /\ BuiltIdle
    /\ \E seed \in {"None", "value"}, id \in {"None", "value"}, n \in 0..MaxFailAt :
          purchase = [PurchaseInitAttrs EXCEPT !.agreement_id_seed = seed,
                                               !.agreement_id = id,
                                               !.fail_at = n]

NextPur ==
    \/ _get_ddo_data_from_endpoint
    \/ RunStage
    \/ Purchase_async_act

SpecPurchase == InitPur /\ [][NextPur]_vars

(***************************************************************************)
(* Properties of the transition table, checked under SpecFsm.              *)
(***************************************************************************)
\* The round entered when the i-th round of the history ended.
RoundAfter(i) == IF i < Len(round_history) THEN round_history[i + 1] ELSE current_round

RetryEvents == {"no_majority", "round_timeout"}

\* C2 (as amended): every non-final round handles NO_MAJORITY and
\* ROUND_TIMEOUT; NO_MAJORITY re-enters the round that ended; ROUND_TIMEOUT
\* re-enters it too, except for MechResponseRound, which a timeout ends in
\* FinishedMechResponseTimeoutRound.
C2_SelfLoopsButResponseTimeout ==
    /\ \A r \in NonFinalRounds : RetryEvents \subseteq DOMAIN transition_function[r]
    /\ \A i \in DOMAIN event_history :
          /\ round_history[i] \in NonFinalRounds
          /\ event_history[i] = "no_majority" => RoundAfter(i) = round_history[i]
          /\ event_history[i] = "round_timeout" =>
                RoundAfter(i) = IF round_history[i] = "MechResponseRound"
                                THEN "FinishedMechResponseTimeoutRound"
                                ELSE round_history[i]

C2_Witness ==
    /\ event_history = <<"no_majority", "round_timeout">>
    /\ round_history = <<"MechResponseRound", "MechResponseRound">>
    /\ current_round = "FinishedMechResponseTimeoutRound"

\* C2 (as stated): every non-final round maps both NO_MAJORITY and
\* ROUND_TIMEOUT to itself.
C2_AllSelfLoops ==
    \A i \in DOMAIN event_history :
        event_history[i] \in RetryEvents => RoundAfter(i) = round_history[i]

\* C11: the transition table is total: every event that a round of the
\* application can end with (its done, negative, none and no-majority
\* events, and ROUND_TIMEOUT) has an entry in the row of that round, for
\* the round the application is in and for every round it has been in.
C11_Total ==
    /\ RoundEvents(current_round) \subseteq DOMAIN transition_function[current_round]
    /\ \A i \in DOMAIN round_history :
          /\ RoundEvents(round_history[i]) \subseteq
                DOMAIN transition_function[round_history[i]]
          /\ event_history[i] \in RoundEvents(round_history[i])

C11_Witness ==
    /\ round_history = <<"MechVersionDetectionRound", "MechVersionDetectionRound",
                         "MechVersionDetectionRound", "MechInformationRound">>
    /\ event_history = <<"round_timeout", "no_majority", "v2", "none">>
    /\ current_round = "FailedMechInformationRound"

\* C12: db_post_conditions declares for a final round exactly the keys
\* written on reaching it: for FinishedMechResponseRound the set that
\* holds mech_responses and nothing else, and for
\* FinishedMechPurchaseSubscriptionRound the selection key of the purchase
\* round.
C12_DeclaredKeys ==
    /\ current_round = "FinishedMechResponseRound" =>
          db_post_conditions[current_round] = {"mech_responses"}
    /\ current_round = "FinishedMechPurchaseSubscriptionRound" =>
          db_post_conditions[current_round] = selection_key

\* The event that ends the round in this step, or NoResult.
EventOfStep ==
    IF Len(event_history') > Len(event_history)
    THEN event_history'[Len(event_history')]
    ELSE NoResult

\* C13: when MechVersionDetectionRound ends with V2, V1 or NO_MARKETPLACE,
\* is_marketplace_v2 is true, false or null in the SynchronizedData after
\* the round; unanimous v2 votes end the round with V2 and true; a block
\* that ends without a result, NO_MAJORITY and a timeout leave
\* is_marketplace_v2 as it was.
C13_EndBlockWrites ==
    [][current_round = "MechVersionDetectionRound" =>
          /\ EventOfStep = "v2" => is_marketplace_v2' = "true"
          /\ EventOfStep = "v1" => is_marketplace_v2' = "false"
          /\ EventOfStep = "no_marketplace" => is_marketplace_v2' = "null"
          /\ EventOfStep \in {NoResult, "no_majority", "round_timeout"} =>
                is_marketplace_v2' = is_marketplace_v2
          /\ EventOfStep \in MechVersionDetectionRound =>
                EventOfStep = super_end_block(participant_to_votes)
          /\ (participant_to_votes = [a \in 1..NumAgents |-> "true"]
                /\ EventOfStep \in MechVersionDetectionRound) =>
                (EventOfStep = "v2" /\ is_marketplace_v2' = "true")]_vars

C13_Witness ==
    /\ event_history = <<"no_majority", "v2">>
    /\ participant_to_votes = [a \in 1..NumAgents |-> "true"]
    /\ is_marketplace_v2 = "true"
    /\ current_round = "MechInformationRound"

\* The rounds the application has been in or is in.
RoundsRun == {round_history[i] : i \in DOMAIN round_history} \cup {current_round}

\* C14: MechVersionDetectionRound continues with MechInformationRound on
\* V2 and ends in FinishedMarketplaceLegacyDetectedRound on V1 and in
\* FinishedMechLegacyDetectedRound on NO_MARKETPLACE; MechInformationRound
\* is entered only by V2 from the detection round, and is_marketplace_v2
\* is true whenever it runs.
C14_InformationOnlyAfterV2 ==
    /\ \A i \in DOMAIN event_history :
          /\ round_history[i] = "MechVersionDetectionRound" =>
                /\ event_history[i] = "v2" => RoundAfter(i) = "MechInformationRound"
                /\ event_history[i] = "v1" =>
                      RoundAfter(i) = "FinishedMarketplaceLegacyDetectedRound"
                /\ event_history[i] = "no_marketplace" =>
                      RoundAfter(i) = "FinishedMechLegacyDetectedRound"
          /\ (RoundAfter(i) = "MechInformationRound"
                /\ round_history[i] # "MechInformationRound") =>
                /\ round_history[i] = "MechVersionDetectionRound"
                /\ event_history[i] = "v2"
    /\ "MechInformationRound" \in RoundsRun =>
          /\ is_marketplace_v2 = "true"
          /\ round_history # <<>>
          /\ round_history[1] = "MechVersionDetectionRound"

C14_Witness ==
    /\ event_history = <<"round_timeout", "v2", "no_majority">>
    /\ current_round = "MechInformationRound"
    /\ is_marketplace_v2 = "true"

\* C15: MechResponseRound ends in FinishedMechResponseRound on DONE and in
\* FinishedMechResponseTimeoutRound on ROUND_TIMEOUT; the timeout is the
\* last event of the run: nothing leads from a timed-out response round
\* to FinishedMechResponseRound or to any other round.
C15_TimeoutIsFinal ==
    /\ \A i \in DOMAIN event_history :
          round_history[i] = "MechResponseRound" =>
             /\ event_history[i] = "done" => RoundAfter(i) = "FinishedMechResponseRound"
             /\ event_history[i] = "round_timeout" =>
                   /\ RoundAfter(i) = "FinishedMechResponseTimeoutRound"
                   /\ i = Len(event_history)
                   /\ current_round = "FinishedMechResponseTimeoutRound"
    /\ current_round = "FinishedMechResponseRound" =>
          /\ round_history # <<>>
          /\ \A i \in DOMAIN event_history :
                /\ round_history[i] = "MechResponseRound"
                /\ event_history[i] # "round_timeout"

C15_Witness ==
    /\ event_history = <<"no_majority", "no_majority", "round_timeout">>
    /\ round_history = <<"MechResponseRound", "MechResponseRound", "MechResponseRound">>
    /\ current_round = "FinishedMechResponseTimeoutRound"

\* C16: MechRequestRound ends in FinishedMechRequestRound on DONE and in
\* FinishedMechRequestSkipRound on SKIP_REQUEST and continues with
\* MechPurchaseSubscriptionRound on BUY_SUBSCRIPTION; the purchase round is
\* entered only by BUY_SUBSCRIPTION from the request round.
C16_PurchaseOnlyAfterBuy ==
    /\ \A i \in DOMAIN event_history :
          /\ round_history[i] = "MechRequestRound" =>
                /\ event_history[i] = "done" => RoundAfter(i) = "FinishedMechRequestRound"
                /\ event_history[i] = "skip_request" =>
                      RoundAfter(i) = "FinishedMechRequestSkipRound"
                /\ event_history[i] = "buy_subscription" =>
                      RoundAfter(i) = "MechPurchaseSubscriptionRound"
          /\ (RoundAfter(i) = "MechPurchaseSubscriptionRound"
                /\ round_history[i] # "MechPurchaseSubscriptionRound") =>
                /\ round_history[i] = "MechRequestRound"
                /\ event_history[i] = "buy_subscription"
    /\ "MechPurchaseSubscriptionRound" \in RoundsRun =>
          /\ round_history # <<>>
          /\ round_history[1] = "MechRequestRound"

C16_Witness ==
    /\ event_history = <<"round_timeout", "buy_subscription", "none">>
    /\ round_history = <<"MechRequestRound", "MechRequestRound",
                         "MechPurchaseSubscriptionRound">>
    /\ current_round = "MechPurchaseSubscriptionRound"

\* C17: in MechPurchaseSubscriptionRound NONE and NO_MAJORITY re-enter the
\* round, DONE ends in FinishedMechPurchaseSubscriptionRound, and a
\* ROUND_TIMEOUT abandons the purchase: it leads out of the round, so that
\* the application does not stay in it when no transaction is produced.
C17_TimeoutAbandons ==
    \A i \in DOMAIN event_history :
        round_history[i] = "MechPurchaseSubscriptionRound" =>
           /\ event_history[i] \in {"none", "no_majority"} =>
                 RoundAfter(i) = "MechPurchaseSubscriptionRound"
           /\ event_history[i] = "done" =>
                 RoundAfter(i) = "FinishedMechPurchaseSubscriptionRound"
           /\ event_history[i] = "round_timeout" =>
                 RoundAfter(i) # "MechPurchaseSubscriptionRound"

(***************************************************************************)
(* Properties of the information behaviour, checked under SpecInfo.        *)
(***************************************************************************)
\* C3: the tools fetch of one mech cannot keep failing beyond the retry
\* budget of the tools API: since its own last success, a mech never
\* accumulates more failed fetches than the configured retries plus the one
\* that exhausts them, whatever the other mechs answer.
C3_FailuresWithinBudget ==
    \A m \in DOMAIN tool_failures : tool_failures[m] <= api_retries.tools + 1

\* C4: the behaviour emits a None payload after a failed subgraph batch
\* fetch only once the retry budget of the subgraph is exhausted.
C4_NoneOnlyWhenExhausted ==
    (info_payload = "None" /\ call_failed) =>
        is_retries_exceeded(subgraph_attempted, api_retries.subgraph)

\* C26: once the tools of every fetched mech are populated, the behaviour
\* holds the serialised information of the mechs, from which
\* SynchronizedData.mechs_info builds records equal to the fetched ones.
C26_RoundTrip ==
    (info_pc \in {"done", "raised"} /\ fetched # <<>> /\ NextToPopulate(fetched, 1) = 0)
        => info_payload = "mechs_info"

(***************************************************************************)
(* Properties of the ranking, checked under SpecRank.                      *)
(***************************************************************************)
\* C5: the order of MechInfo is transitive: whenever p1 < p2 and p2 < p3,
\* also p1 < p3.
C5_Transitive ==
    lt.set =>
        \A i, j, k \in DOMAIN mechs_info :
            (<<i, j>> \in lt.pairs /\ <<j, k>> \in lt.pairs) => <<i, k>> \in lt.pairs

AllTied ==
    \A i, j \in DOMAIN mechs_info :
        /\ score(mechs_info[i]) = score(mechs_info[j])
        /\ mechs_info[i].karma = mechs_info[j].karma

\* C6: mechs of equal score and equal karma are ordered by a deterministic
\* secondary tie-break: priority_mech and ranked_mechs are the same for both
\* orders of the same mechs' information.
C6_OrderIndependent ==
    (AllTied /\ priority # <<>> /\ ranked # <<>>) =>
        /\ priority[1] = priority[2]
        /\ ranked[1] = ranked[2]

Tied(x, y) == Abs(score(x) - score(y)) < MACHINE_EPS

\* The mech at position a of the first ranking.
RankedAt(a) == mechs_info[ranked[1][a]]

\* C23: of two mechs whose scores differ by at least MACHINE_EPS the one of
\* the lower score is the lower one whatever the karma, of two mechs whose
\* scores differ by less the one of the lower karma is the lower one, and
\* the ranking lists the mechs by descending score, the karma deciding
\* among tied scores only.
C23_ScoreThenKarma ==
    /\ lt.set =>
          \A i, j \in DOMAIN mechs_info :
              <<i, j>> \in lt.pairs <=>
                  IF Tied(mechs_info[i], mechs_info[j])
                  THEN mechs_info[i].karma < mechs_info[j].karma
                  ELSE score(mechs_info[i]) < score(mechs_info[j])
    /\ ranked # <<>> =>
          \A a, b \in DOMAIN ranked[1] :
              a < b =>
                  IF Tied(RankedAt(a), RankedAt(b))
                  THEN RankedAt(a).karma >= RankedAt(b).karma
                  ELSE score(RankedAt(a)) > score(RankedAt(b))

Kept ==
    {i \in DOMAIN built.unfiltered :
        /\ built.unfiltered[i].service.metadata # <<>>
        /\ built.unfiltered[i].maxDeliveryRate.v <= built.delivery_rate_cap}

\* C24: filter_info returns, in the order of the response, the mechs that
\* have metadata and a max_delivery_rate within delivery_rate_cap and no
\* other mech; when no mech has metadata the list is empty and there is no
\* priority mech.
C24_FilterExact ==
    built.op = "filter_info" =>
        /\ Len(built.filtered) = Cardinality(Kept)
        /\ \A j \in DOMAIN built.filtered :
              /\ built.filtered[j].id \in Kept
              /\ Cardinality({i \in Kept : i <= built.filtered[j].id}) = j
        /\ (\A i \in DOMAIN built.unfiltered : built.unfiltered[i].service.metadata = <<>>)
              => built.filtered = <<>> /\ built.priority_mech = None

\* A mech without metadata is followed by one with metadata and a delivery
\* rate within the cap: only the second is returned.
C24_Witness ==
    /\ built.op = "filter_info"
    /\ Len(built.unfiltered) = 2
    /\ built.unfiltered[1].service.metadata = <<>>
    /\ Kept = {2}
    /\ Len(built.filtered) = 1
    /\ built.filtered[1].id = 2

\* C25: a constructed MechInfo has an int karma, each of its three counts is
\* the snake case keyword when that is not zero and otherwise the int of
\* the camel case keyword, whatever the other keywords are, and its
\* relevant_tools are the empty set when none are given.
C25_FieldsIndependent ==
    built.op = "MechInfo" =>
        LET kwargs == built.kwargs
            instance == built.instance
        IN  /\ instance.karma = IntValue(kwargs.karma.v)
            /\ instance.received_requests =
                  IF kwargs.received_requests # 0 THEN kwargs.received_requests
                  ELSE kwargs.receivedRequests.v
            /\ instance.self_delivered =
                  IF kwargs.self_delivered # 0 THEN kwargs.self_delivered
                  ELSE kwargs.selfDeliveredFromReceived.v
            /\ instance.max_delivery_rate =
                  IF kwargs.max_delivery_rate # 0 THEN kwargs.max_delivery_rate
                  ELSE kwargs.maxDeliveryRate.v
            /\ kwargs.relevant_tools = <<>> => instance.relevant_tools = {}

\* C28: the smoothed delivered ratio of a constructed MechInfo lies strictly
\* between 0 and 1.
C28_RatioInUnitInterval ==
    built.op = "delivered_ratio_smoothed" =>
        /\ 0 < built.delivered_ratio_smoothed
        /\ built.delivered_ratio_smoothed < TicksPerUnit

\* C29: the liveness of a mech that has received no request is
\* alpha / (alpha + beta) whatever its last delivery; the liveness of a mech
\* that has received requests is the one of its service, 0 without a last
\* delivery.
C29_ColdStartLiveness ==
    built.op = "liveness" =>
        LET instance == built.instance
        IN  /\ instance.received_requests = 0 =>
                  built.liveness =
                      Ratio(LAPLACE_SMOOTHING_ALPHA,
                            LAPLACE_SMOOTHING_ALPHA + LAPLACE_SMOOTHING_BETA)
            /\ instance.received_requests > 0 =>
                  /\ built.liveness = ServiceLiveness(instance.service)
                  /\ instance.service.last_delivered = None => built.liveness = 0

\* The liveness of a mech without received requests and with a last
\* delivery has been read.
C29_Witness ==
    /\ built.op = "liveness"
    /\ built.instance.received_requests = 0
    /\ built.instance.service.last_delivered # None
    /\ built.liveness # ServiceLiveness(built.instance.service)
    /\ built.liveness > 0

(***************************************************************************)
(* Properties of the purchase behaviour, checked under SpecPurchase.       *)
(***************************************************************************)
LegsOf(batches) == [i \in DOMAIN batches |-> batches[i].fn]

\* C21: when async_act of the purchase behaviour has run with every
\* contract call succeeding, the multisend batch holds the create-agreement
\* leg, the token-approval leg when required and the fulfill leg, in this
\* order, and a payload with the safe tx hash of the batch has been sent.
C21_ThreeLegsThenPayload ==
    (purchase.last = "async_act" /\ purchase.fetched = "True" /\ purchase.fail_at = 0)
        => /\ LegsOf(purchase.multisend_batches) \in
                 {<<"create_agreement", "fulfill">>,
                  <<"create_agreement", "approve", "fulfill">>}
           /\ purchase.safe_tx_hash # ""
           /\ purchase.payload # "None"

\* A stage of the attempt has failed: the fetch of the registered values
\* and of the descriptor, or a contract call of the stage that ran.
StageFailed ==
    \/ purchase.fetched = "False"
    \/ purchase.fail_at \in 1..Len(purchase.calls)

\* C22: once a stage of the purchase has failed, the stage that runs
\* returns None, issues no contract call after the failed one, and neither
\* the create-agreement call nor the fulfill call is built.
C22_FailureIsFatal ==
    (purchase.last \in Stages /\ StageFailed)
        => /\ purchase.res = "None"
           /\ purchase.fail_at \in 1..Len(purchase.calls)
                 => Len(purchase.calls) = purchase.fail_at
           /\ purchase.create_agreement_tx_data = "None"
           /\ purchase.create_fulfill_tx_data = "None"

\* C31: a configuration whose response_timeout, multisend_batch_size or
\* mech_interaction_sleep_time is not positive never yields parameters: the
\* construction ends with an error.
C31_NonPositiveRejected ==
    built.op = "MechParams" =>
        LET kwargs == built.kwargs
        IN  /\ (kwargs.mech_marketplace_config.response_timeout <= 0
                    => MechMarketplaceConfig(kwargs.mech_marketplace_config) = "ValueError")
            /\ (\/ kwargs.mech_marketplace_config.response_timeout <= 0
                \/ kwargs.multisend_batch_size <= 0
                \/ kwargs.mech_interaction_sleep_time <= 0)
                    => built.params = "ValueError"

\* Parameters are built from positive values, and a batch size of zero is
\* the only fault of a rejected configuration.
C31_Witness ==
    /\ built.op = "MechParams"
    /\ built.params = "ValueError"
    /\ built.kwargs.multisend_batch_size = 0
    /\ built.kwargs.mech_interaction_sleep_time > 0
    /\ built.kwargs.mech_marketplace_config.response_timeout > 0
    /\ built.kwargs.multisend_address # "None"
    /\ built.kwargs.agent_registry_address # "None"
    /\ ~built.kwargs.use_mech_marketplace

\* C32: every leg of a batch has a non-empty target and a value of at least
\* zero; a leg with an empty target, a negative value or data that is not
\* HexBytes raises and leaves the batch as it was; a leg that is accepted is
\* appended at the end, so the batch is in the order of construction.
C32_ValidLegsInOrder ==
    built.op = "multisend_batches" =>
        LET batches == built.multisend_batches
            arguments == built.arguments
        IN  /\ \A i \in DOMAIN batches :
                  /\ batches[i].to.t = "str" /\ batches[i].to.v # ""
                  /\ batches[i].value.t = "int" /\ batches[i].value.v >= 0
                  /\ batches[i].data.t = "HexBytes"
                  /\ batches[i].constructed = i
            /\ (\/ arguments.to.v = ""
                \/ (arguments.value.t = "int" /\ arguments.value.v < 0)
                \/ arguments.data.t # "HexBytes")
                    => /\ built.raised # "None"
                       /\ batches = built.before
            /\ built.raised = "None" =>
                  /\ Len(batches) = Len(built.before) + 1
                  /\ SubSeq(batches, 1, Len(built.before)) = built.before

\* A leg of negative value is rejected after a leg was appended.
C32_Witness ==
    /\ built.op = "multisend_batches"
    /\ built.raised = "ValueError"
    /\ built.arguments.to = [t |-> "str", v |-> "0xmech"]
    /\ built.arguments.data.t = "HexBytes"
    /\ built.arguments.value = IntValue(0 - 1)
    /\ Len(built.multisend_batches) = 1

ApprovalLegs(batches) == {i \in DOMAIN batches : batches[i].data.fn = "approve"}

\* C33: with token payment in the v2 flow, the batch whose safe tx hash was
\* computed holds one approval leg for each request leg, and every approval
\* leg stands immediately before its request leg.
C33_OneApprovalPerRequest ==
    (safe_tx_hash.set /\ using_token /\ Encoder = "marketplace_v2") =>
        /\ Cardinality(ApprovalLegs(multisend_batches)) =
               Cardinality(RequestLegs(multisend_batches))
        /\ \A i \in ApprovalLegs(multisend_batches) :
               i + 1 \in RequestLegs(multisend_batches)
        /\ \A i \in RequestLegs(multisend_batches) :
               i - 1 \in ApprovalLegs(multisend_batches)

\* C34: whenever _ensure_available_balance has compared a price with the
\* balances, the price it compared is an integer that was fetched, in the
\* direct flow, in the v1 flow and in the v2 flow with native or token payment.
C34_ComparedPriceDefined ==
    last_check \in {"native", "unwrap", "token", "short", "TypeError"} =>
        /\ (IF using_native THEN price ELSE mech_max_delivery_rate) # None
        /\ last_check # "TypeError"

\* The number of requests one run of _prepare_safe_tx takes.
n_iters == Min(params.multisend_batch_size, Len(sync_mech_requests))

\* C35: a payload with a tx carries as many placeholders as the batch has
\* request legs, namely min(multisend_batch_size, requests pending at setup);
\* their nonces are those of the requests at the end of the queue, taken last
\* first, and the remaining requests it carries are the requests before them.
C35_PlaceholdersMatchTaken ==
    payload.kind = "tx" =>
        LET pending == Len(sync_mech_requests)
        IN  /\ Len(payload.mech_responses) = n_iters
            /\ Cardinality(RequestLegs(multisend_batches)) = n_iters
            /\ \A i \in 1..n_iters :
                   payload.mech_responses[i].nonce = sync_mech_requests[pending - i + 1]
            /\ payload.mech_requests = SubSeq(sync_mech_requests, 1, pending - n_iters)

\* C36: what fetch_mechs_info returns holds every eligible mech of the
\* subgraph once, in ascending order of id, and nothing else, also when the
\* filter removes a whole page of raw records.
C36_AllEligibleOnce ==
    (built.op = "fetch_mechs_info" /\ built.returned = "mechs_info") =>
        /\ Range(built.mechs_info) = built.eligible
        /\ Len(built.mechs_info) = Cardinality(built.eligible)

\* No mech is collected twice, before or after the return.
FetchedOnce ==
    built.op = "fetch_mechs_info" =>
        \A i, j \in DOMAIN built.mechs_info :
            i < j => built.mechs_info[i] < built.mechs_info[j]

\* The attributes that only the external calls of _prepare_safe_tx change.
NoExternalCall ==
    /\ steps = <<>> /\ step_i = 1 /\ attempts = 0
    /\ mech_payment_type = BehaviourInitAttrs.mech_payment_type
    /\ mech_max_delivery_rate = BehaviourInitAttrs.mech_max_delivery_rate
    /\ price = BehaviourInitAttrs.price
    /\ nvm_balance = BehaviourInitAttrs.nvm_balance
    /\ subscription_balance = BehaviourInitAttrs.subscription_balance
    /\ wallet_balance = BehaviourInitAttrs.wallet_balance
    /\ token_balance = BehaviourInitAttrs.token_balance
    /\ last_check = "none"
    /\ popped = <<>> /\ pending_responses = <<>> /\ multisend_batches = <<>>
    /\ multisend_data = BehaviourInitAttrs.multisend_data
    /\ safe_tx_hash = BehaviourInitAttrs.safe_tx_hash

\* What a run that has ended has emitted.
EmittedAtEnd ==
    pc = "done" =>
        /\ payload.kind \in {"skip", "buy_subscription", "tx"}
        /\ payload.kind = "skip" <=> sync_mech_requests = <<>>
        /\ payload.kind = "skip" =>
              /\ payload.tx_hex = NoTx /\ payload.price = None
              /\ payload.mech_requests = <<>> /\ payload.mech_responses = <<>>
              /\ NoExternalCall
        /\ payload.kind = "buy_subscription" =>
              /\ payload.tx_hex = NoTx /\ using_nevermined
        /\ payload.kind = "tx" => payload.tx_hex.safe_tx_hash.set

\* C37: a run of async_act that ends has emitted one payload, at its end and
\* not before: the skip payload, without any external call, exactly when no
\* request is pending after setup, and otherwise the buy-subscription
\* payload or the tx payload.
C37_OnePayloadPerRun ==
    /\ [](EmittedAtEnd /\ (pc # "done" => payload = NoPayload))
    /\ [][payload' # payload =>
             \/ pc # "done" /\ pc' = "done" /\ payload = NoPayload
             \/ pc' = "setup" /\ payload' = NoPayload]_vars

\* The three ways a run ends.
C37_Witness ==
    /\ pc = "done"
    /\ payload.kind = "tx"
    /\ reentries = 1
    /\ Len(payload.mech_responses) = 2

C37_WitnessSkip == pc = "done" /\ payload.kind = "skip"

C37_WitnessBuy == pc = "done" /\ payload.kind = "buy_subscription"

\* What the detection of one agent did, given the stored version.
DetectionAsStored ==
    built.op = "detect_marketplace_compatibility" =>
        /\ built.called <=>
              (params.use_mech_marketplace /\ built.stored \notin {"true", "false"})
        /\ ~params.use_mech_marketplace => built.is_v2 = "null"
        /\ (params.use_mech_marketplace /\ built.stored \in {"true", "false"})
              => built.is_v2 = built.stored

\* C38: the behaviour calls the marketplace exactly when the marketplace is
\* enabled and no true or false version is stored; it votes None with the
\* marketplace disabled and the stored version once one is stored; and no
\* version-detection round changes a stored true or false.
C38_AgreedVersionKept ==
    /\ []DetectionAsStored
    /\ [][(is_marketplace_v2 \in {"true", "false"})
               => (is_marketplace_v2' = is_marketplace_v2)]_vars

\* A second detection round has ended with the version that the first one
\* agreed, and its agents did not call the marketplace.
C38_Witness ==
    /\ Len(event_history) = 3
    /\ event_history[1] = "v1" /\ event_history[3] = "v1"
    /\ is_marketplace_v2 = "false"
    /\ built.op = "detect_marketplace_compatibility"
    /\ ~built.called
    /\ built.is_v2 = "false"

\* C39: the priority mech is None exactly when no mech has the selected
\* tool, and otherwise it is the first of the ranked mechs, for the stored
\* list and for the same list in another order.
C39_PriorityIsHeadOfRanking ==
    (priority # <<>> /\ ranked # <<>>) =>
        /\ priority[1] = None <=> relevant_mechs_info(mechs_info) = <<>>
        /\ priority[2] = None <=> relevant_mechs_info(mechs_info_reordered) = <<>>
        /\ priority[1] # None => priority[1] = Head(ranked[1])
        /\ priority[2] # None => priority[2] = Head(ranked[2])

\* The rounds one transition away from round r, and the rounds that can be
\* reached from the rounds of from in any number of transitions.
Successors(r) == {transition_function[r][e] : e \in DOMAIN transition_function[r]}

RECURSIVE ReachableFrom(_)
ReachableFrom(from) ==
    LET further == from \cup UNION {Successors(r) : r \in from}
    IN  IF further = from THEN from ELSE ReachableFrom(further)

\* C40: the nine final rounds have no outgoing transition, every round of
\* the table can be reached from an initial round, a final round can be
\* reached from every round that is not final, and the round the
\* application is in obeys the same graph.
C40_WellFormedGraph ==
    /\ Cardinality(final_states) = 9
    /\ final_states \subseteq DOMAIN transition_function
    /\ \A r \in final_states : DOMAIN transition_function[r] = {}
    /\ ReachableFrom(initial_states) = DOMAIN transition_function
    /\ \A r \in (DOMAIN transition_function) \ final_states :
          ReachableFrom({r}) \cap final_states # {}
    /\ current_round \in ReachableFrom(initial_states)
    /\ \A i \in DOMAIN round_history :
          /\ round_history[i] \notin final_states
          /\ (IF i < Len(round_history) THEN round_history[i + 1] ELSE current_round)
                \in Successors(round_history[i])

\* A final round reached from an initial round through a round that is
\* not initial.
C40_Witness ==
    /\ round_history = <<"MechRequestRound", "MechPurchaseSubscriptionRound">>
    /\ event_history = <<"buy_subscription", "done">>
    /\ current_round = "FinishedMechPurchaseSubscriptionRound"

====
